---- MODULE Spec2Model ----
(***************************************************************************)
(* The circuit editor of rm-rf-humans/Tex: the scene graph of gates, pins, *)
(* junctions and wires kept by CircuitCanvas, the wire-drawing session of  *)
(* mousePressEvent / keyPressEvent, the Delete and Rotate commands of      *)
(* LaTeXCircuitDesigner, the connection validator and the identifier and   *)
(* connection-reference part of the TikZ serializer.                       *)
(*                                                                         *)
(* Python objects are modelled by handles.  A ConnectionPoint handle       *)
(* carries the attributes the object is constructed with (parent_gate,     *)
(* point_type, index) and an object number `obj` telling apart the         *)
(* successive pin objects a gate creates for one role and index: every     *)
(* rotate_gate builds new ConnectionPoint objects.  An object that nothing *)
(* can reach any more is dropped from the state.                           *)
(***************************************************************************)
EXTENDS Integers, Sequences, FiniteSets, TLC

\* Bounds.  A run is bounded in the top-level items of each class in the
\* scene, the size of a selection, the quarter turns a gate is given, the
\* objects outside the scene that are still referred to, the gate kinds of
\* the tool panel it uses and the points it clicks.  The editing run has
\* every command on a small scene; the wiring run has a larger scene and no
\* selection, so that Delete and Rotate find nothing to act on.
MaxGates == 2
MaxJunctions == 2
MaxWires == 2
EditGates == 1
EditJunctions == 1
EditWires == 2
MaxSelected == 1
MaxTurns == 1
MaxStale == 1
ExportGates == 2
ExportJunctions == 1
ExportWires == 1
NamedGates == 3
TurnGates == 1
TurnWires == 1
FullTurn == 4
ReplayGates == 1
ReplayJunctions == 1
ReplayWires == 2
ReplaySelected == 2
SnapGates == 1
SnapJunctions == 0
SnapWires == 0
MaxGuides == 2
OrthoGates == 1
OrthoJunctions == 1
OrthoWires == 1
PollGates == 1
PollJunctions == 1
PollWires == 1
CutGates == 1
CutJunctions == 2
CutWires == 2
GuideGates == 1
GuidesPerAxis == 1

\* The scene point every click of the editing and the wiring run is made at
Origin == <<0, 0>>

EditLimits ==
    [gates |-> EditGates, junctions |-> EditJunctions, wires |-> EditWires,
     selected |-> MaxSelected, turns |-> MaxTurns, stale |-> MaxStale,
     kinds |-> {"AND", "NOT"}, points |-> {Origin}, viewer |-> FALSE]

WiringLimits ==
    [gates |-> MaxGates, junctions |-> MaxJunctions, wires |-> MaxWires,
     selected |-> 0, turns |-> 0, stale |-> 0,
     kinds |-> {"AND", "NOT"}, points |-> {Origin}, viewer |-> FALSE]

\* The export run places three kinds of gate at two points, of which one is
\* off the grid and has a negative coordinate, and has no selection
ExportLimits ==
    [gates |-> ExportGates, junctions |-> ExportJunctions, wires |-> ExportWires,
     selected |-> 0, turns |-> 0, stale |-> 0,
     kinds |-> {"AND", "OR", "NOT"}, points |-> {Origin, <<-30, 40>>}, viewer |-> FALSE]

\* The naming run places up to three gates of two kinds, and has no selection
NamingLimits ==
    [gates |-> NamedGates, junctions |-> 1, wires |-> 1,
     selected |-> 0, turns |-> 0, stale |-> 0,
     kinds |-> {"AND", "OR"}, points |-> {Origin}, viewer |-> FALSE]

\* The turning run gives a gate any number of quarter turns
TurnLimits ==
    [gates |-> TurnGates, junctions |-> 1, wires |-> TurnWires,
     selected |-> 1, turns |-> FullTurn, stale |-> 1,
     kinds |-> {"AND", "NOT"}, points |-> {Origin}, viewer |-> FALSE]

\* The replay run has selections of more than one item, which Delete may
\* list in any order, and rotates no gate
ReplayLimits ==
    [gates |-> ReplayGates, junctions |-> ReplayJunctions, wires |-> ReplayWires,
     selected |-> ReplaySelected, turns |-> 0, stale |-> 1,
     kinds |-> {"AND"}, points |-> {Origin}, viewer |-> FALSE]

\* The snapping run places one gate at points on and off the grid, sets the
\* grid spacing to the values of `sizes` and puts up to `guides` guides at
\* the positions of `marks` on either axis
SnapLimits ==
    [gates |-> SnapGates, junctions |-> SnapJunctions, wires |-> SnapWires,
     selected |-> 0, turns |-> 0, stale |-> 0,
     kinds |-> {"AND"}, points |-> {<<13, 13>>, <<12, 12>>, <<5, 25>>, <<-13, -5>>},
     viewer |-> FALSE, sizes |-> {3, 10, 25}, marks |-> {15, 35}, guides |-> MaxGuides]

\* The routing run has one gate at the origin, whose output pin is at (90, 0),
\* and clicks and moves at points as far from that pin along x as along y,
\* farther along x, and farther along y
OrthoLimits ==
    [gates |-> OrthoGates, junctions |-> OrthoJunctions, wires |-> OrthoWires,
     selected |-> 0, turns |-> 0, stale |-> 0,
     kinds |-> {"AND"},
     points |-> {Origin, <<100, 10>>, <<80, -10>>, <<120, 10>>, <<95, 30>>},
     viewer |-> FALSE]

\* The polling run has a code viewer, selections of one item and sessions
\* that a deletion leaves with a start point outside the scene
PollLimits ==
    [gates |-> PollGates, junctions |-> PollJunctions, wires |-> PollWires,
     selected |-> 1, turns |-> 1, stale |-> 1,
     kinds |-> {"AND"}, points |-> {Origin}, viewer |-> TRUE]

\* The cutting run has two junctions, so that a Delete of one junction can
\* be seen to leave the other and the wires that are not at the deleted one
CutLimits ==
    [gates |-> CutGates, junctions |-> CutJunctions, wires |-> CutWires,
     selected |-> 1, turns |-> 0, stale |-> 1,
     kinds |-> {"NOT"}, points |-> {Origin}, viewer |-> FALSE]

\* The guide run places one gate near guides that a right press may have
\* taken out of the scene
GuideLimits ==
    [gates |-> GuideGates, junctions |-> 0, wires |-> 0,
     selected |-> 0, turns |-> 0, stale |-> 0,
     kinds |-> {"AND"}, points |-> {<<13, 13>>, <<12, 12>>},
     viewer |-> FALSE, sizes |-> {10, 25}, marks |-> {15, 35}, guides |-> GuidesPerAxis]

\* The gate kinds of the tool panel
PlacedKinds == {"AND", "OR", "NOT", "NAND", "NOR", "XOR", "XNOR"}

\* The tools of the tool panel
Tools == {"select", "wire"} \cup PlacedKinds

VARIABLES
    gates,                  \* the GateItems of the scene, in insertion order
    junctions,              \* the JunctionPoints of the scene, in insertion order,
                            \* each with its object number and its pos()
    wires,                  \* the WireItems of the scene, in insertion order
    wire_ends,              \* WireItem object -> its start_connection, end_connection
    connected_wires,        \* endpoint object -> its connected_wires list
    current_tool,
    connecting,
    start_connection_point,
    preview_wire,
    selected,               \* scene.selectedItems()
    outcome,                \* the last event: "accepted" or "rejected" for a
                            \* connection attempt, "cancel" for Escape or the
                            \* right button, "poll" for the timer, "none" for
                            \* any other
    grid_size,
    vertical_guides,        \* GuideLineManager.vertical_guides, by get_position()
    horizontal_guides,      \* GuideLineManager.horizontal_guides, by get_position()
    snap_enabled,           \* GuideLineManager.snap_enabled
    removed_guides,         \* the GuideLines that are in the manager's lists but
                            \* no longer in the scene, by orientation and place
    shift_pressed,
    shift_ctrl_pressed,
    code,                   \* the lines of the text the code viewer shows
    limits                  \* the bounds of the run, fixed by Init

\* What the snap service reads
aids == <<grid_size, vertical_guides, horizontal_guides, snap_enabled, removed_guides>>

\* The modifier keys the canvas keeps track of
keys == <<shift_pressed, shift_ctrl_pressed>>

vars == <<gates, junctions, wires, wire_ends, connected_wires, current_tool,
          connecting, start_connection_point, preview_wire, selected, outcome,
          grid_size, vertical_guides, horizontal_guides, snap_enabled, removed_guides,
          shift_pressed, shift_ctrl_pressed, code, limits>>

-----------------------------------------------------------------------------
\* Handles

None == [kind |-> "None"]

ConnectionPoint(parent_gate, point_type, index, obj) ==
    [kind |-> "ConnectionPoint", parent_gate |-> parent_gate,
     point_type |-> point_type, index |-> index, obj |-> obj]

JunctionPoint(id) == [kind |-> "JunctionPoint", id |-> id]

GateItem(id) == [kind |-> "GateItem", id |-> id]

WireItem(id) == [kind |-> "WireItem", id |-> id]

PreviewWire(start_point, mouse_pos) ==
    [kind |-> "PreviewWire", start_point |-> start_point, end_pos |-> mouse_pos]

\* Python list helpers
Range(s) == {s[i] : i \in DOMAIN s}

ListRemove(s, x) ==
    IF x \in Range(s)
    THEN LET k == CHOOSE i \in DOMAIN s : s[i] = x /\ \A j \in 1..(i-1) : s[j] # x
         IN  SubSeq(s, 1, k - 1) \o SubSeq(s, k + 1, Len(s))
    ELSE s

\* list(reversed(s)): scene.items() lists the topmost (last inserted) item first
Reversed(s) == [i \in 1..Len(s) |-> s[Len(s) + 1 - i]]

\* The smallest number from `from` on that is not in `used`
Fresh(used, from) ==
    CHOOSE n \in from..(from + Cardinality(used)) :
        n \notin used /\ \A m \in from..(n - 1) : m \in used

-----------------------------------------------------------------------------
\* The scene.  A heap value h holds the object graph: h.gates, h.junctions
\* and h.wires are the scene's items by class, h.wire_ends and
\* h.connected_wires the attributes of the objects still referred to.

Heap == [gates |-> gates, junctions |-> junctions, wires |-> wires,
         wire_ends |-> wire_ends, connected_wires |-> connected_wires]

\* gate.input_points and gate.output_points as create_connection_points builds them
input_points(gate) ==
    [i \in 1..gate.num_inputs |-> ConnectionPoint(gate.id, "input", i - 1, gate.obj)]

output_points(gate) ==
    <<ConnectionPoint(gate.id, "output", 0, gate.obj)>>

PinsOf(gs) ==
    UNION {Range(input_points(gs[i]) \o output_points(gs[i])) : i \in DOMAIN gs}

JunctionsOf(js) == {JunctionPoint(js[i].id) : i \in DOMAIN js}

GateIds == {gates[i].id : i \in DOMAIN gates}

GateOf(gs, g) == gs[CHOOSE i \in DOMAIN gs : gs[i].id = g]

\* The endpoints itemAt can return: the pins of the gates of the scene and
\* the junctions of the scene
SceneEndpoints == PinsOf(gates) \cup JunctionsOf(junctions)

\* The items a click or rubber band can select (ItemIsSelectable)
SelectableOf(h) ==
    {GateItem(h.gates[i].id) : i \in DOMAIN h.gates}
        \cup JunctionsOf(h.junctions)
        \cup {WireItem(w) : w \in Range(h.wires)}

\* A WireItem that is no longer in the scene is reached only as an entry of
\* a connected_wires list, where nothing but the length of the list and the
\* other entries are read again: all such entries are written Removed.
Removed == 0

\* The objects the program can still reach: the endpoints in the scene, the
\* session's start point and the ends of the scene's wires
Alive(h, roots) ==
    PinsOf(h.gates) \cup JunctionsOf(h.junctions) \cup (roots \ {None})
        \cup {h.wire_ends[w].start_connection : w \in Range(h.wires)}
        \cup {h.wire_ends[w].end_connection : w \in Range(h.wires)}

\* The heap without the objects the program cannot reach any more
Collect(h, roots) ==
    LET mark(list) == [i \in DOMAIN list |->
                          IF list[i] \in Range(h.wires) THEN list[i] ELSE Removed]
    IN  [h EXCEPT !.wire_ends = [w \in Range(h.wires) |-> h.wire_ends[w]],
                  !.connected_wires = [e \in Alive(h, roots) |-> mark(h.connected_wires[e])]]

-----------------------------------------------------------------------------
\* ConnectionPoint / JunctionPoint / WireItem methods

add_wire(cw, point, wire) == [cw EXCEPT ![point] = Append(@, wire)]

remove_wire(cw, point, wire) ==
    IF point \in DOMAIN cw THEN [cw EXCEPT ![point] = ListRemove(@, wire)] ELSE cw

\* A faulty WireItem construction that adds no wire: C8 must fail with it
NoWire(h, start_point, end_point) == h

\* wire = WireItem(start_point, end_point); self.scene.addItem(wire)
NewWire(h, start_point, end_point) ==
    LET wire == Fresh(DOMAIN h.wire_ends, 1)
    IN  [h EXCEPT
            !.wire_ends = (wire :> [start_connection |-> start_point,
                                    end_connection |-> end_point]) @@ @,
            !.connected_wires = add_wire(add_wire(@, start_point, wire), end_point, wire),
            !.wires = Append(@, wire)]

\* junction = JunctionPoint(x, y); self.scene.addItem(junction)
NewJunctionId(h) ==
    Fresh({e.id : e \in {x \in DOMAIN h.connected_wires : x.kind = "JunctionPoint"}}, 1)

NewJunction(h, id, x, y) ==
    [h EXCEPT !.junctions = Append(@, [id |-> id, pos |-> <<x, y>>]),
              !.connected_wires = (JunctionPoint(id) :> <<>>) @@ @]

\* A faulty GateItem construction that gives every gate two input pins:
\* C11 must fail with it
NewGateTwoInputs(h, id, gate_type, x, y, inputs) ==
    LET gate == [id |-> id, gate_type |-> gate_type, num_inputs |-> 2,
                 pos |-> <<x, y>>, angle |-> 0, obj |-> 0]
    IN  [h EXCEPT !.gates = Append(@, gate),
                  !.connected_wires =
                      [p \in Range(input_points(gate) \o output_points(gate)) |-> <<>>] @@ @]

\* gate = GateItem(tool, x, y, inputs); self.scene.addItem(gate)
NewGateId(h) ==
    Fresh({e.parent_gate :
             e \in {x \in DOMAIN h.connected_wires : x.kind = "ConnectionPoint"}}, 1)

NewGate(h, id, gate_type, x, y, inputs) ==
    LET gate == [id |-> id, gate_type |-> gate_type, num_inputs |-> inputs,
                 pos |-> <<x, y>>, angle |-> 0, obj |-> 0]
    IN  [h EXCEPT !.gates = Append(@, gate),
                  !.connected_wires =
                      [p \in Range(input_points(gate) \o output_points(gate)) |-> <<>>] @@ @]

-----------------------------------------------------------------------------
\* CircuitCanvas.snap_position_to_grid

snap_threshold == 10

abs(x) == IF x < 0 THEN 0 - x ELSE x

\* A faulty rounding that cuts the fraction off: C24 must fail with it
round_down(a, b) == a \div b

\* Python's round(a / b) for an integer a and b > 0: to the nearest integer,
\* and to the even one of the two when a / b lies halfway between them
round(a, b) ==
    LET q == a \div b
        r == a % b
    IN  IF 2 * r < b THEN q
        ELSE IF 2 * r > b THEN q + 1
        ELSE IF q % 2 = 0 THEN q ELSE q + 1

\* A faulty search that lets the last guide in range win: C27 must fail with
\* it
SnapToGuide_last(guides, x) ==
    LET near == {i \in DOMAIN guides : abs(x - guides[i]) <= snap_threshold}
    IN  IF near = {} THEN x
        ELSE guides[CHOOSE i \in near : \A j \in near : j <= i]

\* The position of the first guide within the threshold of coordinate x,
\* or x when there is none
SnapToGuide(guides, x) ==
    LET near == {i \in DOMAIN guides : abs(x - guides[i]) <= snap_threshold}
    IN  IF near = {} THEN x
        ELSE guides[CHOOSE i \in near : \A j \in near : i <= j]

\* GuideLineManager.get_snap_position
get_snap_position(position) ==
    IF ~snap_enabled THEN position
    ELSE <<SnapToGuide(vertical_guides, position[1]),
           SnapToGuide(horizontal_guides, position[2])>>

\* snap_to_grid_enabled is True and nothing sets it
snap_position_to_grid(pos) ==
    get_snap_position(<<round(pos[1], grid_size) * grid_size,
                        round(pos[2], grid_size) * grid_size>>)

-----------------------------------------------------------------------------
\* CircuitCanvas.is_valid_connection

\* A faulty validator without the test for one and the same point: C21 must
\* fail with it
is_valid_connection_no_self_test(point1, point2) ==
    IF point1.kind = "JunctionPoint" \/ point2.kind = "JunctionPoint" THEN TRUE
    ELSE IF point1.point_type = point2.point_type THEN FALSE
    ELSE IF point1.parent_gate = point2.parent_gate THEN FALSE
    ELSE IF point1.point_type = "input" /\ Len(connected_wires[point1]) > 0 THEN FALSE
    ELSE IF point2.point_type = "input" /\ Len(connected_wires[point2]) > 0 THEN FALSE
    ELSE TRUE

\* A faulty validator without the test for one and the same gate: C22 must
\* fail with it
is_valid_connection_any_gate(point1, point2) ==
    IF point1 = point2 THEN FALSE
    ELSE IF point1.kind = "JunctionPoint" \/ point2.kind = "JunctionPoint" THEN TRUE
    ELSE IF point1.point_type = point2.point_type THEN FALSE
    ELSE IF point1.point_type = "input" /\ Len(connected_wires[point1]) > 0 THEN FALSE
    ELSE IF point2.point_type = "input" /\ Len(connected_wires[point2]) > 0 THEN FALSE
    ELSE TRUE

\* A faulty validator that tests the connected wires of a pin of either
\* role: C23 must fail with it
is_valid_connection_one_wire_per_pin(point1, point2) ==
    IF point1 = point2 THEN FALSE
    ELSE IF point1.kind = "JunctionPoint" \/ point2.kind = "JunctionPoint" THEN TRUE
    ELSE IF point1.point_type = point2.point_type THEN FALSE
    ELSE IF point1.parent_gate = point2.parent_gate THEN FALSE
    ELSE IF Len(connected_wires[point1]) > 0 THEN FALSE
    ELSE IF Len(connected_wires[point2]) > 0 THEN FALSE
    ELSE TRUE

\* A faulty validator that tests the connected wires of an input pin before
\* it lets a junction pass: C29 must fail with it
is_valid_connection_occupied_first(point1, point2) ==
    IF point1 = point2 THEN FALSE
    ELSE IF point1.kind = "ConnectionPoint" /\ point1.point_type = "input"
                /\ Len(connected_wires[point1]) > 0 THEN FALSE
    ELSE IF point2.kind = "ConnectionPoint" /\ point2.point_type = "input"
                /\ Len(connected_wires[point2]) > 0 THEN FALSE
    ELSE IF point1.kind = "JunctionPoint" \/ point2.kind = "JunctionPoint" THEN TRUE
    ELSE IF point1.point_type = point2.point_type THEN FALSE
    ELSE IF point1.parent_gate = point2.parent_gate THEN FALSE
    ELSE TRUE

is_valid_connection(point1, point2) ==
    IF point1 = point2 THEN FALSE
    ELSE IF point1.kind = "JunctionPoint" \/ point2.kind = "JunctionPoint" THEN TRUE
    ELSE IF point1.point_type = point2.point_type THEN FALSE
    ELSE IF point1.parent_gate = point2.parent_gate THEN FALSE
    ELSE IF point1.point_type = "input" /\ Len(connected_wires[point1]) > 0 THEN FALSE
    ELSE IF point2.point_type = "input" /\ Len(connected_wires[point2]) > 0 THEN FALSE
    ELSE TRUE

-----------------------------------------------------------------------------
\* LaTeXCircuitDesigner.delete_selected, one selected item at a time

\* wire.scene().removeItem(wire), then the clean-up of the wire's other end
DropWireOf(h, point, wire) ==
    LET ends == h.wire_ends[wire]
        h1 == [h EXCEPT !.wires = ListRemove(@, wire)]
    IN  IF ends.start_connection = point
        THEN [h1 EXCEPT !.connected_wires = remove_wire(@, ends.end_connection, wire)]
        ELSE IF ends.end_connection = point
        THEN [h1 EXCEPT !.connected_wires = remove_wire(@, ends.start_connection, wire)]
        ELSE h1

\* for wire in list(point.connected_wires): ...
RECURSIVE DropWiresOf(_, _, _)
DropWiresOf(h, point, ws) ==
    IF ws = <<>> THEN h
    ELSE DropWiresOf(DropWireOf(h, point, Head(ws)), point, Tail(ws))

\* for cp in item.input_points + item.output_points: ...
RECURSIVE DropPins(_, _)
DropPins(h, cps) ==
    IF cps = <<>> THEN h
    ELSE DropPins(DropWiresOf(h, Head(cps), h.connected_wires[Head(cps)]), Tail(cps))

DeleteGate(h, id) ==
    LET gate == GateOf(h.gates, id)
        h1 == DropPins(h, input_points(gate) \o output_points(gate))
    IN  [h1 EXCEPT !.gates = SelectSeq(@, LAMBDA g : g.id # id)]

\* A faulty deletion of a wire that cleans the list of the wire's start only:
\* C34 must fail with it
DeleteWireStartOnly(h, wire) ==
    LET ends == h.wire_ends[wire]
    IN  [h EXCEPT
            !.connected_wires = remove_wire(@, ends.start_connection, wire),
            !.wires = ListRemove(@, wire)]

DeleteWire(h, wire) ==
    LET ends == h.wire_ends[wire]
    IN  [h EXCEPT
            !.connected_wires =
                remove_wire(remove_wire(@, ends.start_connection, wire),
                            ends.end_connection, wire),
            !.wires = ListRemove(@, wire)]

\* A faulty deletion of a junction that leaves the junction's wires in the
\* scene: C35 must fail with it
DeleteJunctionKeepsWires(h, id) ==
    [h EXCEPT !.junctions = SelectSeq(@, LAMBDA j : j.id # id)]

DeleteJunction(h, id) ==
    LET h1 == DropWiresOf(h, JunctionPoint(id), h.connected_wires[JunctionPoint(id)])
    IN  [h1 EXCEPT !.junctions = SelectSeq(@, LAMBDA j : j.id # id)]

DeleteItem(h, item) ==
    IF item.kind = "GateItem" THEN DeleteGate(h, item.id)
    ELSE IF item.kind = "WireItem" THEN DeleteWire(h, item.id)
    ELSE DeleteJunction(h, item.id)

\* A faulty loop over the selection that ends after its first item: C19
\* must fail with it
DeleteItemsFirstOnly(h, items) ==
    IF items = <<>> THEN h ELSE DeleteItem(h, Head(items))

RECURSIVE DeleteItems(_, _)
DeleteItems(h, items) ==
    IF items = <<>> THEN h
    ELSE DeleteItems(DeleteItem(h, Head(items)), Tail(items))

\* The orders in which selectedItems() may list the selection
Orders(S) ==
    {s \in [1..Cardinality(S) -> S] : \A i, j \in DOMAIN s : i # j => s[i] # s[j]}

-----------------------------------------------------------------------------
\* GateItem.rotate_gate

\* A faulty rotate_gate that does not take the angle modulo 360: C20 must
\* fail with it
rotate_gate_unwrapped(h, id, roots) ==
    LET others == SelectSeq(h.gates, LAMBDA g : g.id # id)
        kept == Alive([h EXCEPT !.gates = others], roots)
        used == {e.obj : e \in {x \in kept : x.kind = "ConnectionPoint"
                                              /\ x.parent_gate = id}}
        turn(g) == IF g.id = id
                   THEN [g EXCEPT !.angle = g.angle + 90, !.obj = Fresh(used, 0)]
                   ELSE g
        gs == [i \in DOMAIN h.gates |-> turn(h.gates[i])]
        gate == GateOf(gs, id)
    IN  [h EXCEPT !.gates = gs,
                  !.connected_wires =
                      [p \in Range(input_points(gate) \o output_points(gate)) |-> <<>>] @@ @]

\* A faulty rotate_gate that makes one input pin only, whatever the gate:
\* C36 must fail with it
rotate_gate_one_input(h, id, roots) ==
    LET others == SelectSeq(h.gates, LAMBDA g : g.id # id)
        kept == Alive([h EXCEPT !.gates = others], roots)
        used == {e.obj : e \in {x \in kept : x.kind = "ConnectionPoint"
                                              /\ x.parent_gate = id}}
        turn(g) == IF g.id = id
                   THEN [g EXCEPT !.angle = (g.angle + 90) % 360, !.obj = Fresh(used, 0),
                                  !.num_inputs = 1]
                   ELSE g
        gs == [i \in DOMAIN h.gates |-> turn(h.gates[i])]
        gate == GateOf(gs, id)
    IN  [h EXCEPT !.gates = gs,
                  !.connected_wires =
                      [p \in Range(input_points(gate) \o output_points(gate)) |-> <<>>] @@ @]

\* The heap once the gate's ConnectionPoints are taken out of the scene and
\* new ones are made by create_connection_points
rotate_gate(h, id, roots) ==
    LET others == SelectSeq(h.gates, LAMBDA g : g.id # id)
        kept == Alive([h EXCEPT !.gates = others], roots)
        used == {e.obj : e \in {x \in kept : x.kind = "ConnectionPoint"
                                              /\ x.parent_gate = id}}
        turn(g) == IF g.id = id
                   THEN [g EXCEPT !.angle = (g.angle + 90) % 360, !.obj = Fresh(used, 0)]
                   ELSE g
        gs == [i \in DOMAIN h.gates |-> turn(h.gates[i])]
        gate == GateOf(gs, id)
    IN  [h EXCEPT !.gates = gs,
                  !.connected_wires =
                      [p \in Range(input_points(gate) \o output_points(gate)) |-> <<>>] @@ @]

RECURSIVE RotateGates(_, _, _)
RotateGates(h, ids, roots) ==
    IF ids = {} THEN h
    ELSE LET id == CHOOSE x \in ids : TRUE
         IN  RotateGates(rotate_gate(h, id, roots), ids \ {id}, roots)

\* Object identities are not observable: the items of the scene are named
\* by their position in the scene's lists; an object that leaves the scene
\* and is still referred to gets a number below 1 that it keeps; the pin
\* objects a gate has now are numbered 0, its earlier ones from 1 on.
Position(s, x) == CHOOSE i \in DOMAIN s : s[i] = x

Rank(S, x) == Cardinality({y \in S : y <= x})

\* The number below 1 for the i-th object that leaves the scene, where
\* the numbers in `taken` are in use
Outside(taken, i) ==
    0 - (CHOOSE n \in 1..(Cardinality(taken) + i) :
            /\ (0 - n) \notin taken
            /\ Cardinality({m \in 1..n : (0 - m) \notin taken}) = i)

\* c is a heap, start the session's start point, preview its preview wire
\* and sel a selection
Renamed(c, start, preview, sel) ==
    LET eps == DOMAIN c.connected_wires
        pins == {x \in eps : x.kind = "ConnectionPoint"}
        gids == [i \in DOMAIN c.gates |-> c.gates[i].id]
        jids == [i \in DOMAIN c.junctions |-> c.junctions[i].id]
        outG == {e.parent_gate : e \in pins} \ Range(gids)
        outJ == {e.id : e \in eps \ pins} \ Range(jids)
        leave(out, x) ==
            IF x < 1 THEN x
            ELSE Outside({y \in out : y < 1}, Rank({y \in out : y >= 1}, x))
        gate(g) == IF g \in Range(gids) THEN Position(gids, g) ELSE leave(outG, g)
        object(g, o) ==
            LET cur == IF g \in Range(gids) THEN GateOf(c.gates, g).obj ELSE 0
            IN  IF o = cur THEN 0 ELSE IF o = 0 THEN cur ELSE o
        point(p) ==
            IF p = None THEN None
            ELSE IF p.kind = "JunctionPoint"
            THEN JunctionPoint(IF p.id \in Range(jids)
                               THEN Position(jids, p.id)
                               ELSE leave(outJ, p.id))
            ELSE ConnectionPoint(gate(p.parent_gate), p.point_type, p.index,
                                 object(p.parent_gate, p.obj))
        wire(w) == IF w = Removed THEN Removed ELSE Position(c.wires, w)
        item(x) == IF x.kind = "GateItem" THEN GateItem(gate(x.id))
                   ELSE IF x.kind = "WireItem" THEN WireItem(wire(x.id))
                   ELSE point(x)
        pre(q) == CHOOSE p \in eps : point(p) = q
    IN  [gates |-> [i \in DOMAIN c.gates |-> [c.gates[i] EXCEPT !.id = i, !.obj = 0]],
         junctions |-> [i \in DOMAIN c.junctions |-> [c.junctions[i] EXCEPT !.id = i]],
         wires |-> [i \in DOMAIN c.wires |-> i],
         wire_ends |->
             [i \in DOMAIN c.wires |->
                 [start_connection |-> point(c.wire_ends[c.wires[i]].start_connection),
                  end_connection |-> point(c.wire_ends[c.wires[i]].end_connection)]],
         connected_wires |->
             [q \in {point(p) : p \in eps} |->
                 [k \in DOMAIN c.connected_wires[pre(q)] |->
                     wire(c.connected_wires[pre(q)][k])]],
         start |-> point(start),
         preview |-> IF preview = None THEN None
                     ELSE PreviewWire(point(preview.start_point), preview.end_pos),
         selected |-> {item(x) : x \in sel \cap SelectableOf(c)}]

\* Nothing is to be renamed in a heap whose objects all are in the scene and
\* carry their positions
Canonical(c, start, preview, sel) ==
    IF /\ \A i \in DOMAIN c.gates : c.gates[i].id = i /\ c.gates[i].obj = 0
       /\ \A i \in DOMAIN c.junctions : c.junctions[i].id = i
       /\ \A i \in DOMAIN c.wires : c.wires[i] = i
       /\ DOMAIN c.connected_wires = PinsOf(c.gates) \cup JunctionsOf(c.junctions)
    THEN [gates |-> c.gates, junctions |-> c.junctions, wires |-> c.wires,
          wire_ends |-> c.wire_ends, connected_wires |-> c.connected_wires,
          start |-> start, preview |-> preview,
          selected |-> sel \cap SelectableOf(c)]
    ELSE Renamed(c, start, preview, sel)

-----------------------------------------------------------------------------
\* The state after a handler that lets go of objects: the heap h without the
\* objects nothing refers to any more; an item taken out of the scene is no
\* longer selected

Commit(h, start, preview, sel) ==
    \E h1 \in {h} :
    \E c \in {Collect(h1, {start} \cup (IF preview = None THEN {} ELSE {preview.start_point}))} :
    \E n \in {Canonical(c, start, preview, sel)} :
        /\ Cardinality(DOMAIN c.connected_wires
                           \ (PinsOf(c.gates) \cup JunctionsOf(c.junctions))) <= limits.stale
        /\ gates' = n.gates
        /\ junctions' = n.junctions
        /\ wires' = n.wires
        /\ wire_ends' = n.wire_ends
        /\ connected_wires' = n.connected_wires
        /\ start_connection_point' = n.start
        /\ preview_wire' = n.preview
        /\ selected' = n.selected
        /\ UNCHANGED <<aids, keys, limits>>

\* The state after a handler that lets go of nothing
Keep(h, start, preview) ==
    /\ gates' = h.gates
    /\ junctions' = h.junctions
    /\ wires' = h.wires
    /\ wire_ends' = h.wire_ends
    /\ connected_wires' = h.connected_wires
    /\ start_connection_point' = start
    /\ preview_wire' = preview
    /\ UNCHANGED <<selected, aids, keys, limits>>

-----------------------------------------------------------------------------
\* CircuitCanvas.get_all_tikz_code and generate_complete_document

\* str.lower on the gate kinds
lower == [AND |-> "and", OR |-> "or", NOT |-> "not", NAND |-> "nand",
          NOR |-> "nor", XOR |-> "xor", XNOR |-> "xnor"]

tikz_gates == [AND |-> "and gate US", OR |-> "or gate US", NOT |-> "not gate US",
               NAND |-> "nand gate US", NOR |-> "nor gate US",
               XOR |-> "xor gate US", XNOR |-> "xnor gate US"]

\* f"{v:.2f}" for the number v of absolute value m / 100 and sign bit
\* `negative` (Python writes the sign of a negative zero)
Fixed2(negative, m) ==
    (IF negative THEN "-" ELSE "") \o ToString(m \div 100) \o "."
        \o (IF m % 100 < 10 THEN "0" ELSE "") \o ToString(m % 100)

\* x, y = pos().x() / 50, -pos().y() / 50, each written with :.2f
TikzPosition(pos) ==
    "(" \o Fixed2(pos[1] < 0, 2 * abs(pos[1])) \o ", "
        \o Fixed2(pos[2] >= 0, 2 * abs(pos[2])) \o ")"

\* [item for item in self.scene.items() if isinstance(item, GateItem)]
scene_gates == Reversed(gates)

\* [item for item in self.scene.items() if isinstance(item, JunctionPoint)]
scene_junctions == Reversed(junctions)

\* [item for item in self.scene.items() if isinstance(item, WireItem)]
scene_wires == Reversed(wires)

\* A faulty gate_id_map that leaves the first listed gate of a kind
\* without a suffix: C12 must fail with it
gate_id_map_first_bare ==
    [g \in GateIds |->
        LET i == CHOOSE k \in DOMAIN scene_gates : scene_gates[k].id = g
            gate == scene_gates[i]
        IN  IF \E k \in 1..(i - 1) : scene_gates[k].gate_type = gate.gate_type
            THEN lower[gate.gate_type] \o ToString(i)
            ELSE lower[gate.gate_type]]

\* gate_id_map of get_all_tikz_code, by the gate's handle number
gate_id_map ==
    [g \in GateIds |->
        LET i == CHOOSE k \in DOMAIN scene_gates : scene_gates[k].id = g
            gate == scene_gates[i]
            gate_type_count ==
                Cardinality({k \in DOMAIN scene_gates :
                                scene_gates[k].gate_type = gate.gate_type})
        IN  IF gate_type_count > 1
            THEN lower[gate.gate_type] \o ToString(i)
            ELSE lower[gate.gate_type]]

\* A faulty junction_id_map that numbers every junction with the length of
\* the list: C13 must fail with it
junction_id_map_by_length ==
    [j \in {junctions[k].id : k \in DOMAIN junctions} |->
        "junction" \o ToString(Len(scene_junctions))]

\* junction_id_map of get_all_tikz_code, by the junction's handle number
junction_id_map ==
    [j \in {junctions[k].id : k \in DOMAIN junctions} |->
        "junction" \o ToString(CHOOSE i \in DOMAIN scene_junctions :
                                   scene_junctions[i].id = j)]

\* The result None of get_connection_reference
NoReference == "None"

\* A faulty get_connection_reference that writes an input pin's index as
\* it is: C14 must fail with it
get_connection_reference_zero_based(connection, gate_ids, junction_ids) ==
    IF connection.kind = "JunctionPoint"
    THEN IF connection.id \in DOMAIN junction_ids
         THEN junction_ids[connection.id] ELSE NoReference
    ELSE IF connection.parent_gate \in DOMAIN gate_ids
    THEN LET gate_id == gate_ids[connection.parent_gate]
         IN  IF connection.point_type = "output" THEN gate_id \o ".output"
             ELSE IF gate_id = "not" THEN gate_id \o ".input"
             ELSE gate_id \o ".input " \o ToString(connection.index)
    ELSE NoReference

get_connection_reference(connection, gate_ids, junction_ids) ==
    IF connection.kind = "JunctionPoint"
    THEN IF connection.id \in DOMAIN junction_ids
         THEN junction_ids[connection.id] ELSE NoReference
    ELSE IF connection.parent_gate \in DOMAIN gate_ids
    THEN LET gate_id == gate_ids[connection.parent_gate]
         IN  IF connection.point_type = "output" THEN gate_id \o ".output"
             ELSE IF gate_id = "not" THEN gate_id \o ".input"
             ELSE gate_id \o ".input " \o ToString(connection.index + 1)
    ELSE NoReference

\* ", inputs=n" and ", rotate=a" of a gate's node options
inputs_spec(gate) ==
    IF gate.num_inputs > 2 THEN ", inputs=" \o ToString(gate.num_inputs) ELSE ""

rotation_spec(gate) ==
    IF gate.angle # 0 THEN ", rotate=" \o ToString(gate.angle) ELSE ""

\* GateItem.get_tikz_code
GateTikzCode(gate, gate_id) ==
    "    \\node[" \o tikz_gates[gate.gate_type] \o ", draw" \o inputs_spec(gate)
        \o rotation_spec(gate) \o "] (" \o gate_id \o ") at "
        \o TikzPosition(gate.pos) \o " {};"

\* JunctionPoint.get_tikz_code
JunctionTikzCode(junction, junction_id) ==
    "    \\node[circle, fill, inner sep=1pt] (" \o junction_id \o ") at "
        \o TikzPosition(junction.pos) \o " {};"

\* WireItem.get_tikz_code
WireTikzCode(start_ref, end_ref) ==
    "    \\draw (" \o start_ref \o ") -- (" \o end_ref \o ");"

\* The lines get_all_tikz_code opens and closes the text with
Preamble ==
    <<"\\documentclass[tikz, border=15pt]{standalone}",
      "\\usetikzlibrary{positioning, shapes.gates.logic.US, calc}",
      "\\usepackage{amsmath}",
      "\\begin{document}",
      "\\begin{tikzpicture}">>

Epilogue == <<"\\end{tikzpicture}", "\\end{document}">>

\* A faulty gates section that writes its header whether or not there is a
\* gate: C15 must fail with it
GatesSectionAlways ==
    <<"    % Gates">>
        \o [i \in DOMAIN scene_gates |->
               GateTikzCode(scene_gates[i], gate_id_map[scene_gates[i].id])]

\* if gates: ...
GatesSection ==
    IF scene_gates # <<>>
    THEN <<"    % Gates">>
         \o [i \in DOMAIN scene_gates |->
                GateTikzCode(scene_gates[i], gate_id_map[scene_gates[i].id])]
    ELSE <<>>

\* if junctions: ...
JunctionsSection ==
    IF scene_junctions # <<>>
    THEN <<"    ", "    % Junctions">>
         \o [i \in DOMAIN scene_junctions |->
                JunctionTikzCode(scene_junctions[i],
                                 junction_id_map[scene_junctions[i].id])]
    ELSE <<>>

\* A faulty loop over the wires that writes a statement whether or not the
\* two references exist: C17 must fail with it
RECURSIVE ConnectionLinesUnchecked(_)
ConnectionLinesUnchecked(k) ==
    IF k > Len(scene_wires) THEN <<>>
    ELSE LET wire == wire_ends[scene_wires[k]]
             start_ref == get_connection_reference(wire.start_connection,
                                                   gate_id_map, junction_id_map)
             end_ref == get_connection_reference(wire.end_connection,
                                                 gate_id_map, junction_id_map)
         IN  <<WireTikzCode(start_ref, end_ref)>> \o ConnectionLinesUnchecked(k + 1)

\* for wire in wires: ..., from the k-th wire of the list on
RECURSIVE ConnectionLines(_)
ConnectionLines(k) ==
    IF k > Len(scene_wires) THEN <<>>
    ELSE LET wire == wire_ends[scene_wires[k]]
             start_ref == get_connection_reference(wire.start_connection,
                                                   gate_id_map, junction_id_map)
             end_ref == get_connection_reference(wire.end_connection,
                                                 gate_id_map, junction_id_map)
         IN  (IF start_ref # NoReference /\ end_ref # NoReference
              THEN <<WireTikzCode(start_ref, end_ref)>> ELSE <<>>)
                 \o ConnectionLines(k + 1)

\* if wires: ...
ConnectionsSection ==
    IF scene_wires # <<>>
    THEN <<"    ", "    % Connections">> \o ConnectionLines(1)
    ELSE <<>>

\* A faulty get_all_tikz_code that writes the junctions before the gates:
\* C16 must fail with it
get_all_tikz_code_junctions_first ==
    Preamble \o JunctionsSection \o GatesSection \o ConnectionsSection \o Epilogue

\* The list tikz_code that get_all_tikz_code joins with newlines
get_all_tikz_code ==
    Preamble \o GatesSection \o JunctionsSection \o ConnectionsSection \o Epilogue

\* gate_id_map of generate_complete_document
document_gate_id_map ==
    [g \in GateIds |->
        LET i == CHOOSE k \in DOMAIN scene_gates : scene_gates[k].id = g
            gate == scene_gates[i]
            gate_type_count ==
                Cardinality({k \in DOMAIN scene_gates :
                                scene_gates[k].gate_type = gate.gate_type})
        IN  IF gate_type_count > 1
            THEN lower[gate.gate_type] \o ToString(i)
            ELSE lower[gate.gate_type]]

\* junction_id_map of generate_complete_document
document_junction_id_map ==
    [j \in {junctions[k].id : k \in DOMAIN junctions} |->
        "junction" \o ToString(CHOOSE i \in DOMAIN scene_junctions :
                                   scene_junctions[i].id = j)]

\* pylatex's Command(command, arguments, options, extra_arguments)
Command(command, arguments, options, extra_arguments) ==
    [command |-> command, arguments |-> arguments, options |-> options,
     extra_arguments |-> extra_arguments]

\* for wire in wires: ... of generate_complete_document
RECURSIVE DocumentConnections(_)
DocumentConnections(k) ==
    IF k > Len(scene_wires) THEN <<>>
    ELSE LET wire == wire_ends[scene_wires[k]]
             start_ref == get_connection_reference(wire.start_connection,
                              document_gate_id_map, document_junction_id_map)
             end_ref == get_connection_reference(wire.end_connection,
                            document_gate_id_map, document_junction_id_map)
         IN  (IF start_ref # NoReference /\ end_ref # NoReference
              THEN <<Command("draw", "(" \o start_ref \o ") -- (" \o end_ref \o ")",
                             "", "")>>
              ELSE <<>>)
                 \o DocumentConnections(k + 1)

\* A faulty generate_complete_document that leaves the rotation out of a
\* gate's options: C18 must fail with it
generate_complete_document_unrotated ==
    [i \in DOMAIN scene_gates |->
        LET gate == scene_gates[i]
        IN  Command("node", "(" \o document_gate_id_map[gate.id] \o ")",
                    tikz_gates[gate.gate_type] \o ", draw" \o inputs_spec(gate),
                    "at " \o TikzPosition(gate.pos) \o " {}")]
    \o [i \in DOMAIN scene_junctions |->
        LET junction == scene_junctions[i]
        IN  Command("node", "(" \o document_junction_id_map[junction.id] \o ")",
                    "circle, fill, inner sep=1pt",
                    "at " \o TikzPosition(junction.pos) \o " {}")]
    \o DocumentConnections(1)

\* The commands generate_complete_document appends to the TikZ environment
generate_complete_document ==
    [i \in DOMAIN scene_gates |->
        LET gate == scene_gates[i]
        IN  Command("node", "(" \o document_gate_id_map[gate.id] \o ")",
                    tikz_gates[gate.gate_type] \o ", draw" \o inputs_spec(gate)
                        \o rotation_spec(gate),
                    "at " \o TikzPosition(gate.pos) \o " {}")]
    \o [i \in DOMAIN scene_junctions |->
        LET junction == scene_junctions[i]
        IN  Command("node", "(" \o document_junction_id_map[junction.id] \o ")",
                    "circle, fill, inner sep=1pt",
                    "at " \o TikzPosition(junction.pos) \o " {}")]
    \o DocumentConnections(1)

\* The preview wire once cancel_connection has run
Cancelled == IF connecting /\ preview_wire # None THEN None ELSE preview_wire

Start(bounds) ==
    /\ limits = bounds
    /\ gates = <<>>
    /\ junctions = <<>>
    /\ wires = <<>>
    /\ wire_ends = <<>>
    /\ connected_wires = <<>>
    /\ current_tool = "select"
    /\ connecting = FALSE
    /\ start_connection_point = None
    /\ preview_wire = None
    /\ selected = {}
    /\ outcome = "none"
    /\ grid_size = 25
    /\ vertical_guides = <<>>
    /\ horizontal_guides = <<>>
    /\ snap_enabled = TRUE
    /\ removed_guides = {}
    /\ shift_pressed = FALSE
    /\ shift_ctrl_pressed = FALSE
    /\ code = <<>>

\* ConnectionPoint.get_scene_pos and JunctionPoint.get_scene_pos of an
\* endpoint of the scene: a junction's pos(), or the pos() of the pin's gate
\* moved by the pin's own pos(), which create_connection_points sets and no
\* rotation changes
get_scene_pos(point) ==
    IF point.kind = "JunctionPoint"
    THEN junctions[CHOOSE k \in DOMAIN junctions : junctions[k].id = point.id].pos
    ELSE LET gate == GateOf(gates, point.parent_gate)
             x == IF point.point_type = "output" THEN 80 + 10
                  ELSE IF gate.num_inputs = 2 THEN -12 ELSE -10
             y == IF point.point_type = "output" THEN 0
                  ELSE IF gate.num_inputs = 2
                  THEN (IF point.index = 0 THEN -5 ELSE 5)
                  ELSE (60 * (point.index + 1)) \div (gate.num_inputs + 1) - 60 \div 2
         IN  <<gate.pos[1] + x, gate.pos[2] + y>>

\* LaTeXCircuitDesigner.update_code at the end of a command: the viewer is
\* given the text of the scene as the command leaves it.  The editor never
\* reads the viewer's text, and a run records it only when its claims are
\* about it.
set_code ==
    code' = IF limits.viewer THEN get_all_tikz_code' ELSE code

\* A faulty cancel_connection that forgets to reset the start point: C38
\* must fail with it
cancel_connection_keeps_start ==
    /\ connecting' = FALSE
    /\ Commit(Heap, start_connection_point, Cancelled, selected)
    /\ UNCHANGED current_tool

\* CircuitCanvas.cancel_connection, as Escape and the right button call it
cancel_connection ==
    /\ connecting' = FALSE
    /\ Commit(Heap, None, Cancelled, selected)
    /\ UNCHANGED current_tool

\* CircuitCanvas.set_tool
set_tool(tool) ==
    /\ current_tool' = tool
    /\ IF tool = "select"
       THEN /\ connecting' = FALSE
            /\ Commit(Heap, None, Cancelled, selected)
       ELSE /\ UNCHANGED connecting
            /\ Keep(Heap, start_connection_point, preview_wire)
    /\ outcome' = "none"
    /\ UNCHANGED code

\* mousePressEvent, select tool: QGraphicsView's own handling selects the
\* item under the pointer, the items of a rubber band, or nothing
PressSelect(items) ==
    /\ current_tool = "select"
    /\ selected' = items
    /\ outcome' = "none"
    /\ UNCHANGED <<gates, junctions, wires, wire_ends, connected_wires, current_tool,
                   connecting, start_connection_point, preview_wire, aids, keys,
                   limits>>
    /\ UNCHANGED code

\* A faulty PressEndpoint that completes a connection without asking
\* is_valid_connection: C10 must fail with it
PressEndpointUnchecked(item) ==
    /\ current_tool = "wire"
    /\ IF ~connecting
       THEN /\ connecting' = TRUE
            /\ Keep(Heap, item, PreviewWire(item, get_scene_pos(item)))
            /\ outcome' = "none"
       ELSE /\ connecting' = FALSE
            /\ IF item # start_connection_point
               THEN /\ Len(wires) < limits.wires
                    /\ Commit(NewWire(Heap, start_connection_point, item),
                              None, Cancelled, selected)
                    /\ outcome' = IF is_valid_connection(start_connection_point, item)
                                  THEN "accepted" ELSE "rejected"
               ELSE /\ Commit(Heap, None, Cancelled, selected)
                    /\ outcome' = "none"
    /\ UNCHANGED current_tool
    /\ UNCHANGED code

\* A faulty PressEndpoint that starts a session by adding a wire of the scene
\* from the pressed point to itself in place of the preview alone: C33 must
\* fail with it
PressEndpointPersistsPreview(item) ==
    /\ current_tool = "wire"
    /\ IF ~connecting
       THEN /\ connecting' = TRUE
            /\ Len(wires) < limits.wires
            /\ Commit(NewWire(Heap, item, item), item,
                      PreviewWire(item, get_scene_pos(item)), selected)
            /\ outcome' = "none"
       ELSE /\ connecting' = FALSE
            /\ IF item # start_connection_point
               THEN IF is_valid_connection(start_connection_point, item)
                    THEN /\ Len(wires) < limits.wires
                         /\ Commit(NewWire(Heap, start_connection_point, item),
                                   None, Cancelled, selected)
                         /\ outcome' = "accepted"
                    ELSE /\ Commit(Heap, None, Cancelled, selected)
                         /\ outcome' = "rejected"
               ELSE /\ Commit(Heap, None, Cancelled, selected)
                    /\ outcome' = "none"
    /\ UNCHANGED current_tool
    /\ UNCHANGED code

\* mousePressEvent, wire tool, left button on a ConnectionPoint or JunctionPoint
PressEndpoint(item) ==
    /\ current_tool = "wire"
    /\ IF ~connecting
       THEN /\ connecting' = TRUE
            /\ Keep(Heap, item, PreviewWire(item, get_scene_pos(item)))
            /\ outcome' = "none"
       ELSE /\ connecting' = FALSE
            /\ IF item # start_connection_point
               THEN IF is_valid_connection(start_connection_point, item)
                    THEN /\ Len(wires) < limits.wires
                         /\ Commit(NewWire(Heap, start_connection_point, item),
                                   None, Cancelled, selected)
                         /\ outcome' = "accepted"
                    ELSE /\ Commit(Heap, None, Cancelled, selected)
                         /\ outcome' = "rejected"
               ELSE /\ Commit(Heap, None, Cancelled, selected)
                    /\ outcome' = "none"
    /\ UNCHANGED current_tool
    /\ UNCHANGED code

\* mousePressEvent, wire tool, the position of the junction a press at
\* scene_pos makes: the point itself, or with Shift held the point moved onto
\* the horizontal or the vertical line through the session's start point,
\* which Ctrl then snaps
JunctionPosition(scene_pos) ==
    IF shift_pressed
    THEN LET start_pos == get_scene_pos(start_connection_point)
             dx == scene_pos[1] - start_pos[1]
             dy == scene_pos[2] - start_pos[2]
             final_junction_pos == IF abs(dx) > abs(dy)
                                   THEN <<scene_pos[1], start_pos[2]>>
                                   ELSE <<start_pos[1], scene_pos[2]>>
         IN  IF shift_ctrl_pressed
             THEN snap_position_to_grid(final_junction_pos)
             ELSE final_junction_pos
    ELSE scene_pos

\* A faulty PressCanvas that keeps the session's start point instead of
\* going on from the new junction: C9 must fail with it
PressCanvasNoChain(scene_pos) ==
    /\ current_tool = "wire"
    /\ IF connecting
       THEN /\ Len(junctions) < limits.junctions
            /\ Len(wires) < limits.wires
            /\ LET id == NewJunctionId(Heap)
                   junction == JunctionPoint(id)
                   final_junction_pos == JunctionPosition(scene_pos)
               IN  Commit(NewWire(NewJunction(Heap, id, final_junction_pos[1],
                                              final_junction_pos[2]),
                                  start_connection_point, junction),
                          start_connection_point, preview_wire, selected)
            /\ UNCHANGED connecting
       ELSE /\ connecting' = FALSE
            /\ Commit(Heap, None, Cancelled, selected)
    /\ outcome' = "none"
    /\ UNCHANGED current_tool
    /\ UNCHANGED code

\* mousePressEvent, wire tool, left button on anything else, at the scene
\* point scene_pos
PressCanvas(scene_pos) ==
    /\ current_tool = "wire"
    /\ IF connecting
       THEN /\ Len(junctions) < limits.junctions
            /\ Len(wires) < limits.wires
            /\ LET id == NewJunctionId(Heap)
                   junction == JunctionPoint(id)
                   final_junction_pos == JunctionPosition(scene_pos)
               IN  Commit(NewWire(NewJunction(Heap, id, final_junction_pos[1],
                                              final_junction_pos[2]),
                                  start_connection_point, junction),
                          junction,
                          PreviewWire(junction, snap_position_to_grid(scene_pos)),
                          selected)
            /\ UNCHANGED connecting
       ELSE /\ connecting' = FALSE
            /\ Commit(Heap, None, Cancelled, selected)
    /\ outcome' = "none"
    /\ UNCHANGED current_tool
    /\ UNCHANGED code

\* mousePressEvent, right button: the wire tool cancels, a gate tool does
\* nothing, and under the select tool QGraphicsView selects with the left
\* button only
PressRight ==
    /\ IF current_tool = "wire"
       THEN cancel_connection
       ELSE /\ Keep(Heap, start_connection_point, preview_wire)
            /\ UNCHANGED <<current_tool, connecting>>
    /\ outcome' = "cancel"
    /\ UNCHANGED code

\* mousePressEvent, a gate tool, left button at the scene point scene_pos
PressPlace(scene_pos) ==
    /\ current_tool \in PlacedKinds
    /\ Len(gates) < limits.gates
    /\ LET snapped_pos == snap_position_to_grid(scene_pos)
           inputs == IF current_tool = "NOT" THEN 1 ELSE 2
       IN  Keep(NewGate(Heap, NewGateId(Heap), current_tool,
                        snapped_pos[1], snapped_pos[2], inputs),
                start_connection_point, preview_wire)
    /\ outcome' = "none"
    /\ UNCHANGED <<current_tool, connecting>>
    /\ UNCHANGED code

\* keyPressEvent, Qt.Key_Escape
KeyEscape ==
    /\ cancel_connection
    /\ outcome' = "cancel"
    /\ UNCHANGED code

\* LaTeXCircuitDesigner.delete_selected
delete_selected ==
    /\ \E items \in Orders(selected) :
           Commit(DeleteItems(Heap, items), start_connection_point, preview_wire, selected)
    /\ outcome' = "none"
    /\ UNCHANGED <<current_tool, connecting>>
    /\ set_code

\* LaTeXCircuitDesigner.rotate_selected_gate
rotate_selected_gate ==
    /\ \A x \in selected : x.kind = "GateItem" => GateOf(gates, x.id).angle < 90 * limits.turns
    /\ Commit(RotateGates(Heap, {x.id : x \in {y \in selected : y.kind = "GateItem"}},
                          {start_connection_point}),
              start_connection_point, preview_wire, selected)
    /\ outcome' = "none"
    /\ UNCHANGED <<current_tool, connecting>>
    /\ IF \E x \in selected : x.kind = "GateItem" THEN set_code ELSE UNCHANGED code

\* What the commands of the tool panel, the mouse on the canvas and the
\* Delete and Rotate commands work on
editor == <<gates, junctions, wires, wire_ends, connected_wires, current_tool,
            connecting, start_connection_point, preview_wire, selected>>

\* CircuitCanvas.set_grid_size
set_grid_size(size) ==
    /\ grid_size' = IF 5 >= size THEN 5 ELSE size
    /\ outcome' = "none"
    /\ UNCHANGED <<editor, vertical_guides, horizontal_guides, snap_enabled,
                   removed_guides, keys, code, limits>>

\* GuideLineManager.add_vertical_guide, as a click on a ruler calls it through
\* RulerManager
add_vertical_guide(x_position) ==
    /\ Len(vertical_guides) < limits.guides
    /\ vertical_guides' = Append(vertical_guides, x_position)
    /\ outcome' = "none"
    /\ UNCHANGED <<editor, grid_size, horizontal_guides, snap_enabled,
                   removed_guides, keys, code, limits>>

\* GuideLineManager.add_horizontal_guide
add_horizontal_guide(y_position) ==
    /\ Len(horizontal_guides) < limits.guides
    /\ horizontal_guides' = Append(horizontal_guides, y_position)
    /\ outcome' = "none"
    /\ UNCHANGED <<editor, grid_size, vertical_guides, snap_enabled,
                   removed_guides, keys, code, limits>>

\* CircuitCanvas.set_guide_snap_enabled
set_guide_snap_enabled(enabled) ==
    /\ snap_enabled' = enabled
    /\ outcome' = "none"
    /\ UNCHANGED <<editor, grid_size, vertical_guides, horizontal_guides,
                   removed_guides, keys, code, limits>>

\* GuideLine.mousePressEvent, right button, on the guide at place index of
\* the list of its orientation: the guide leaves the scene and stays in the
\* manager's list.  The canvas hands a press on to the items of the scene
\* under the select tool only.
GuideLine_mousePressEvent(orientation, index) ==
    /\ current_tool = "select"
    /\ index \in DOMAIN (IF orientation = "vertical"
                         THEN vertical_guides ELSE horizontal_guides)
    /\ <<orientation, index>> \notin removed_guides
    /\ removed_guides' = removed_guides \cup {<<orientation, index>>}
    /\ outcome' = "cancel"
    /\ UNCHANGED <<editor, grid_size, vertical_guides, horizontal_guides,
                   snap_enabled, keys, code, limits>>

\* keyPressEvent, Qt.Key_Shift or Qt.Key_Control
keyPressEvent(key) ==
    /\ IF key = "Shift"
       THEN shift_pressed' = TRUE /\ UNCHANGED shift_ctrl_pressed
       ELSE shift_ctrl_pressed' = TRUE /\ UNCHANGED shift_pressed
    /\ outcome' = "none"
    /\ UNCHANGED <<editor, aids, code, limits>>

\* keyReleaseEvent, Qt.Key_Shift or Qt.Key_Control
keyReleaseEvent(key) ==
    /\ IF key = "Shift"
       THEN shift_pressed' = FALSE /\ UNCHANGED shift_ctrl_pressed
       ELSE shift_ctrl_pressed' = FALSE /\ UNCHANGED shift_pressed
    /\ outcome' = "none"
    /\ UNCHANGED <<editor, aids, code, limits>>

\* A faulty choice of direction that goes along x when the pointer is as far
\* from the start along x as along y: C26 must fail with it
ortho_pos_horizontal_ties(start_pos, scene_pos) ==
    LET dx == scene_pos[1] - start_pos[1]
        dy == scene_pos[2] - start_pos[2]
    IN  IF abs(dx) >= abs(dy)
        THEN <<scene_pos[1], start_pos[2]>>
        ELSE <<start_pos[1], scene_pos[2]>>

\* The point mouseMoveEvent moves the pointer's position scene_pos to while
\* Shift is held
ortho_pos(start_pos, scene_pos) ==
    LET dx == scene_pos[1] - start_pos[1]
        dy == scene_pos[2] - start_pos[2]
    IN  IF abs(dx) > abs(dy)
        THEN <<scene_pos[1], start_pos[2]>>
        ELSE <<start_pos[1], scene_pos[2]>>

\* mouseMoveEvent with the pointer at scene_pos and no button held
mouseMoveEvent(scene_pos) ==
    /\ IF connecting /\ preview_wire # None
       THEN preview_wire' =
                [preview_wire EXCEPT !.end_pos =
                    IF shift_pressed
                    THEN ortho_pos(get_scene_pos(start_connection_point), scene_pos)
                    ELSE scene_pos]
       ELSE UNCHANGED preview_wire
    /\ outcome' = "none"
    /\ UNCHANGED <<gates, junctions, wires, wire_ends, connected_wires, current_tool,
                   connecting, start_connection_point, selected, aids, keys, code,
                   limits>>

\* A faulty poll that ends the session of the wire tool: C28 must fail with
\* it
update_code_cancels ==
    /\ code' = IF limits.viewer THEN get_all_tikz_code ELSE code
    /\ outcome' = "poll"
    /\ connecting' = FALSE
    /\ start_connection_point' = None
    /\ preview_wire' = None
    /\ UNCHANGED <<gates, junctions, wires, wire_ends, connected_wires, current_tool,
                   selected, aids, keys, limits>>

\* LaTeXCircuitDesigner.update_code, as the timer calls it once a second
update_code ==
    /\ code' = IF limits.viewer THEN get_all_tikz_code ELSE code
    /\ outcome' = "poll"
    /\ UNCHANGED <<editor, aids, keys, limits>>

Next ==
    \/ \E tool \in {"select", "wire"} \cup limits.kinds : set_tool(tool)
    \/ \E items \in SUBSET SelectableOf(Heap) :
           Cardinality(items) <= limits.selected /\ PressSelect(items)
    \/ \E item \in SceneEndpoints : PressEndpoint(item)
    \/ \E scene_pos \in limits.points : PressCanvas(scene_pos)
    \/ PressRight
    \/ \E scene_pos \in limits.points : PressPlace(scene_pos)
    \/ KeyEscape
    \/ delete_selected
    \/ rotate_selected_gate

\* The events of a run that changes the grid and has guides
NextSnap ==
    \/ Next
    \/ \E size \in limits.sizes : set_grid_size(size)
    \/ \E x_position \in limits.marks : add_vertical_guide(x_position)
    \/ \E y_position \in limits.marks : add_horizontal_guide(y_position)
    \/ \E enabled \in BOOLEAN : set_guide_snap_enabled(enabled)

\* The events of a run in which guides are put up and taken down
NextGuide ==
    \/ NextSnap
    \/ \E orientation \in {"horizontal", "vertical"} :
           \E index \in 1..limits.guides : GuideLine_mousePressEvent(orientation, index)

\* The events of a run with the modifier keys and the moves of the mouse
NextOrtho ==
    \/ Next
    \/ \E key \in {"Shift", "Control"} : keyPressEvent(key)
    \/ \E key \in {"Shift", "Control"} : keyReleaseEvent(key)
    \/ \E scene_pos \in limits.points : mouseMoveEvent(scene_pos)

\* The events of a run with the timer of the code viewer
NextPoll ==
    \/ Next
    \/ update_code

\* The editing run
Init == Start(EditLimits)

Spec == Init /\ [][Next]_vars

\* The wiring run
InitWiring == Start(WiringLimits)

SpecWiring == InitWiring /\ [][Next]_vars

\* The export run
InitExport == Start(ExportLimits)

SpecExport == InitExport /\ [][Next]_vars

\* The naming run
InitNaming == Start(NamingLimits)

SpecNaming == InitNaming /\ [][Next]_vars

\* The replay run
InitReplay == Start(ReplayLimits)

SpecReplay == InitReplay /\ [][Next]_vars

\* The turning run
InitTurn == Start(TurnLimits)

SpecTurn == InitTurn /\ [][Next]_vars

\* The snapping run
InitSnap == Start(SnapLimits)

SpecSnap == InitSnap /\ [][NextSnap]_vars

\* The routing run
InitOrtho == Start(OrthoLimits)

SpecOrtho == InitOrtho /\ [][NextOrtho]_vars

\* The cutting run
InitCut == Start(CutLimits)

SpecCut == InitCut /\ [][Next]_vars

\* The guide run
InitGuide == Start(GuideLimits)

SpecGuide == InitGuide /\ [][NextGuide]_vars

\* The polling run
InitPoll == Start(PollLimits)

SpecPoll == InitPoll /\ [][NextPoll]_vars

-----------------------------------------------------------------------------
\* Properties

\* The heap after k calls of rotate_gate on the gate id
RECURSIVE Turned(_, _, _)
Turned(h, id, k) ==
    IF k = 0 THEN h
    ELSE Turned(rotate_gate(h, id, {start_connection_point}), id, k - 1)

\* The roles and indices of the pins a gate has
PinRoles(gate) ==
    [inputs |-> [i \in DOMAIN input_points(gate) |->
                    <<input_points(gate)[i].point_type, input_points(gate)[i].index>>],
     outputs |-> [i \in DOMAIN output_points(gate) |->
                    <<output_points(gate)[i].point_type, output_points(gate)[i].index>>]]

\* The lines of a section that are no statement: its comment and the line
\* that sets it off from the section before
SectionMarks == {"    ", "    % Gates", "    % Junctions", "    % Connections"}

\* The statements of a text: its lines between the five lines of the
\* preamble and the two of the epilogue that are no section marks
StatementsOf(text) ==
    SelectSeq(SubSeq(text, 6, Len(text) - 2), LAMBDA line : line \notin SectionMarks)

\* The statement a command of the document stands for: a node with its
\* options (symbol name and qualifiers), identifier and position, or a draw
\* with its two references
StatementOf(command) ==
    IF command.command = "node"
    THEN "    \\node[" \o command.options \o "] " \o command.arguments \o " "
             \o command.extra_arguments \o ";"
    ELSE "    \\draw " \o command.arguments \o ";"

\* An end of a wire that has no identifier: a junction that is not in the
\* scene, or a pin of a gate that is not in the scene
Unidentified(e) ==
    IF e.kind = "JunctionPoint"
    THEN e.id \notin {junctions[k].id : k \in DOMAIN junctions}
    ELSE e.parent_gate \notin GateIds

\* The wires of the scene with an end that has no identifier
UnidentifiedWires ==
    {w \in Range(wires) : \/ Unidentified(wire_ends[w].start_connection)
                          \/ Unidentified(wire_ends[w].end_connection)}

\* The connection statement of the wire w of the scene
ConnectionOf(w) ==
    WireTikzCode(get_connection_reference(wire_ends[w].start_connection,
                                          gate_id_map, junction_id_map),
                 get_connection_reference(wire_ends[w].end_connection,
                                          gate_id_map, junction_id_map))

\* The wires of the scene that have the endpoint p as an end
WiresAt(p) ==
    {w \in Range(wires) :
        p \in {wire_ends[w].start_connection, wire_ends[w].end_connection}}

\* The wires of the scene that have a pin object of gate g as an end
WiresOfGate(g) ==
    {w \in Range(wires) :
        \E e \in {wire_ends[w].start_connection, wire_ends[w].end_connection} :
            e.kind = "ConnectionPoint" /\ e.parent_gate = g}

\* C1: in every reachable state, every input pin of every gate of the scene
\* is an end of at most one wire of the scene.
C1_InputPinAtMostOneWire ==
    \A p \in PinsOf(gates) : p.point_type = "input" => Cardinality(WiresAt(p)) <= 1

\* C2: a Delete with exactly the gate g selected takes g out of the scene
\* together with every wire that has a pin of g as an end, and leaves every
\* other gate, junction and wire in it.
C2_DeleteGateRemovesItsWires ==
    [][\A g \in GateIds :
          (selected = {GateItem(g)} /\ delete_selected) =>
              /\ Len(gates') = Len(gates) - 1
              /\ junctions' = junctions
              /\ Len(wires') = Cardinality(Range(wires) \ WiresOfGate(g))]_vars

\* C3: in every reachable state, both ends of every wire of the scene are
\* in the scene: a pin a gate of the scene has now, or a junction of the scene.
C3_WireEndsInScene ==
    \A w \in Range(wires) :
        /\ wire_ends[w].start_connection \in SceneEndpoints
        /\ wire_ends[w].end_connection \in SceneEndpoints

\* C4: a Rotate with exactly the gate g selected leaves the wires of the
\* scene as they are, and every pin of g, taken by role and index, has the
\* same connected wires after it as before.
C4_RotateKeepsIncidence ==
    [][\A g \in GateIds :
          (selected = {GateItem(g)} /\ rotate_selected_gate) =>
              /\ wires' = wires
              /\ \A p \in PinsOf(<<GateOf(gates, g)>>) :
                    connected_wires'[p] = connected_wires[p]]_vars

\* C5: in every reachable state, an end of a wire on the input pin of a gate
\* with one input pin is referred to as the gate's identifier followed by
\* ".input", without an index.
C5_SingleInputReference ==
    \A w \in Range(wires) :
        \A e \in {wire_ends[w].start_connection, wire_ends[w].end_connection} :
            (/\ e.kind = "ConnectionPoint"
             /\ e.point_type = "input"
             /\ e.parent_gate \in GateIds
             /\ GateOf(gates, e.parent_gate).num_inputs = 1)
                => get_connection_reference(e, gate_id_map, junction_id_map)
                       = gate_id_map[e.parent_gate] \o ".input"

\* C6: under the wire tool while connecting, a left press on the empty
\* canvas ends the session and discards the preview, and adds no junction
\* and no wire.
C6_CanvasPressCancels ==
    [][\A P \in limits.points :
        (current_tool = "wire" /\ connecting /\ PressCanvas(P)) =>
          /\ ~connecting'
          /\ preview_wire' = None
          /\ junctions' = junctions
          /\ wires' = wires]_vars

\* C7: after Escape or a right press, under any tool, the session is not
\* connecting and has no preview.
C7_CancelGestureEndsSession ==
    outcome = "cancel" => (~connecting /\ preview_wire = None)

\* C8: under the wire tool while connecting from a point A, a left press on
\* another endpoint B of the scene adds exactly one wire, from A to B, when
\* is_valid_connection accepts the pair and adds nothing when it does not;
\* either way the session is not connecting and has no preview afterwards.
C8_CompleteAddsOneWireOrNothing ==
    [][\A item \in SceneEndpoints :
          (/\ current_tool = "wire"
           /\ connecting
           /\ item # start_connection_point
           /\ PressEndpoint(item)) =>
              /\ gates' = gates
              /\ junctions' = junctions
              /\ IF is_valid_connection(start_connection_point, item)
                 THEN /\ wires' = Append(wires, Len(wires) + 1)
                      /\ wire_ends' =
                             Append(wire_ends,
                                    [start_connection |-> start_connection_point,
                                     end_connection |-> item])
                 ELSE /\ wires' = wires
                      /\ wire_ends' = wire_ends
              /\ ~connecting'
              /\ preview_wire' = None]_vars

\* A connection has just been accepted: its wire is the last of the scene
C8_Accepted ==
    /\ outcome = "accepted"
    /\ ~connecting
    /\ preview_wire = None
    /\ wires # <<>>
    /\ wire_ends[Len(wires)].start_connection # wire_ends[Len(wires)].end_connection

\* C9: under the wire tool while connecting from a point E, a left press on
\* the empty canvas adds exactly one new junction J and exactly one wire,
\* from E to J, and the session stays connecting, now from J, with a
\* preview from J.
C9_BranchAddsJunctionAndWire ==
    [][\A P \in limits.points :
        (current_tool = "wire" /\ connecting /\ PressCanvas(P)) =>
          LET J == JunctionPoint(Len(junctions) + 1)
          IN  /\ gates' = gates
              /\ junctions' = Append(junctions, [id |-> Len(junctions) + 1, pos |-> P])
              /\ wires' = Append(wires, Len(wires) + 1)
              /\ wire_ends' =
                     Append(wire_ends,
                            [start_connection |-> start_connection_point,
                             end_connection |-> J])
              /\ connecting'
              /\ start_connection_point' = J
              /\ preview_wire' # None
              /\ preview_wire'.start_point = J]_vars

\* Two presses on the canvas in a row: the session goes on from the newest
\* junction, which the newest wire joins to the junction before it
C9_Chain ==
    /\ connecting
    /\ Len(junctions) >= 2
    /\ wires # <<>>
    /\ start_connection_point = JunctionPoint(Len(junctions))
    /\ wire_ends[Len(wires)] =
           [start_connection |-> JunctionPoint(Len(junctions) - 1),
            end_connection |-> JunctionPoint(Len(junctions))]

\* C10: a left press that completes a connection is_valid_connection
\* rejects leaves the gates, junctions, wires, wire ends and the connected
\* wires of every endpoint of the scene as they were, and leaves the
\* session not connecting, without start point and without preview.
C10_RejectedAttemptChangesNothing ==
    [][\A item \in SceneEndpoints :
          (/\ current_tool = "wire"
           /\ connecting
           /\ item # start_connection_point
           /\ ~is_valid_connection(start_connection_point, item)
           /\ PressEndpoint(item)) =>
              /\ gates' = gates
              /\ junctions' = junctions
              /\ wires' = wires
              /\ wire_ends' = wire_ends
              /\ \A p \in SceneEndpoints : connected_wires'[p] = connected_wires[p]
              /\ ~connecting'
              /\ start_connection_point' = None
              /\ preview_wire' = None]_vars

\* A connection has just been rejected in a scene that has a wire
C10_Rejected ==
    /\ outcome = "rejected"
    /\ ~connecting
    /\ wires # <<>>

\* C11: under a gate tool, a left press at the point P adds exactly one gate,
\* of the tool's kind, at the snapped position of P (on the grid when there
\* is no guide), with one input pin for NOT and two for any other kind, one
\* output pin, angle 0 and no wire on its pins, and leaves every gate,
\* junction, wire and connected-wires list there was as it is.
C11_PlaceAddsOneGate ==
    [][\A P \in limits.points :
        (current_tool \in PlacedKinds /\ PressPlace(P)) =>
          LET gate == gates'[Len(gates')]
              pins == {p \in PinsOf(gates') : p.parent_gate = gate.id}
              n == IF current_tool = "NOT" THEN 1 ELSE 2
          IN  /\ Len(gates') = Len(gates) + 1
              /\ SubSeq(gates', 1, Len(gates)) = gates
              /\ gate.gate_type = current_tool
              /\ gate.pos = snap_position_to_grid(P)
              /\ gate.pos[1] % grid_size = 0
              /\ gate.pos[2] % grid_size = 0
              /\ gate.angle = 0
              /\ {<<p.point_type, p.index>> : p \in pins}
                     = {<<"input", i>> : i \in 0..(n - 1)} \cup {<<"output", 0>>}
              /\ Cardinality(pins) = n + 1
              /\ \A p \in pins : connected_wires'[p] = <<>>
              /\ junctions' = junctions
              /\ wires' = wires
              /\ wire_ends' = wire_ends
              /\ \A p \in SceneEndpoints : connected_wires'[p] = connected_wires[p]]_vars

\* A NOT gate has been placed off the origin in a scene that has a gate, a
\* junction and a wire
C11_Placed ==
    /\ current_tool = "NOT"
    /\ Len(gates) = 2
    /\ gates[2].gate_type = "NOT"
    /\ gates[2].pos = <<-25, 50>>
    /\ gates[2].num_inputs = 1
    /\ junctions # <<>>
    /\ wires # <<>>
    /\ \A p \in PinsOf(<<gates[2]>>) : connected_wires[p] = <<>>

\* C12: in every reachable state, both emission paths give the i-th gate of
\* the enumeration of the scene's gates the lowercase name of its kind alone
\* when no other gate of the scene has its kind, and that name followed by
\* i otherwise; so two AND gates both get a suffix.
C12_GateIdentifiers ==
    \A i \in DOMAIN scene_gates :
        LET gate == scene_gates[i]
            alone == \A j \in DOMAIN scene_gates :
                        j # i => scene_gates[j].gate_type # gate.gate_type
            expected == IF alone THEN lower[gate.gate_type]
                        ELSE lower[gate.gate_type] \o ToString(i)
        IN  /\ gate_id_map[gate.id] = expected
            /\ document_gate_id_map[gate.id] = expected

\* Two AND gates and then an OR gate have been placed: the OR gate is
\* listed first and has no suffix, the AND gates are "and2" and "and3"
C12_TwoOfAKind ==
    /\ Len(gates) = 3
    /\ gates[1].gate_type = "AND"
    /\ gates[2].gate_type = "AND"
    /\ gates[3].gate_type = "OR"
    /\ gate_id_map[gates[3].id] = "or"
    /\ gate_id_map[gates[2].id] = "and2"
    /\ gate_id_map[gates[1].id] = "and3"

\* C13: in every reachable state, no two gates of the scene have the same
\* identifier, no two junctions of the scene have the same identifier, and
\* no gate has the identifier of a junction.
C13_IdentifiersCollisionFree ==
    /\ \A g1, g2 \in DOMAIN gate_id_map :
            g1 # g2 => gate_id_map[g1] # gate_id_map[g2]
    /\ \A j1, j2 \in DOMAIN junction_id_map :
            j1 # j2 => junction_id_map[j1] # junction_id_map[j2]
    /\ \A g \in DOMAIN gate_id_map : \A j \in DOMAIN junction_id_map :
            gate_id_map[g] # junction_id_map[j]

\* Two gates of one kind and two junctions are in the scene
C13_TwoGatesTwoJunctions ==
    /\ Len(gates) = 2
    /\ gates[1].gate_type = gates[2].gate_type
    /\ Len(junctions) = 2
    /\ Cardinality(DOMAIN gate_id_map) = 2
    /\ Cardinality(DOMAIN junction_id_map) = 2

\* C14: in every reachable state, for every wire of the scene of which both
\* ends are a junction of the scene, an output pin of a gate of the scene or
\* an input pin of a gate of the scene with more than one input, the text
\* has the connection statement of the two references, where a junction is
\* referred to by its identifier, an output pin by the gate's identifier
\* followed by ".output" and the input pin of index k by the gate's
\* identifier followed by ".input " and k + 1.
C14_EndpointReferences ==
    LET covered(e) ==
            IF e.kind = "JunctionPoint" THEN e.id \in DOMAIN junction_id_map
            ELSE /\ e.parent_gate \in GateIds
                 /\ (e.point_type = "input" =>
                        GateOf(gates, e.parent_gate).num_inputs > 1)
        reference(e) ==
            IF e.kind = "JunctionPoint" THEN junction_id_map[e.id]
            ELSE IF e.point_type = "output"
            THEN gate_id_map[e.parent_gate] \o ".output"
            ELSE gate_id_map[e.parent_gate] \o ".input " \o ToString(e.index + 1)
    IN  \A w \in Range(wires) :
            LET a == wire_ends[w].start_connection
                b == wire_ends[w].end_connection
            IN  (covered(a) /\ covered(b)) =>
                  /\ get_connection_reference(a, gate_id_map, junction_id_map)
                         = reference(a)
                  /\ get_connection_reference(b, gate_id_map, junction_id_map)
                         = reference(b)
                  /\ ("    \\draw (" \o reference(a) \o ") -- (" \o reference(b) \o ");")
                         \in Range(get_all_tikz_code)

\* One AND gate and one OR gate, joined from the output of the first to the
\* first input of the second: the identifiers are "and" and "or" and the
\* text has the one connection statement of and.output and or.input 1
C14_AndToOr ==
    /\ Len(gates) = 2
    /\ {gates[1].gate_type, gates[2].gate_type} = {"AND", "OR"}
    /\ Range(gate_id_map) = {"and", "or"}
    /\ Len(wires) = 1
    /\ "    \\draw (and.output) -- (or.input 1);" \in Range(get_all_tikz_code)

\* C15: in every reachable state with no gate, no junction and no wire in
\* the scene, the text is the five lines of the preamble followed by the
\* two lines of the epilogue, and nothing else.
C15_EmptySceneText ==
    (gates = <<>> /\ junctions = <<>> /\ wires = <<>>) =>
        get_all_tikz_code =
            <<"\\documentclass[tikz, border=15pt]{standalone}",
              "\\usetikzlibrary{positioning, shapes.gates.logic.US, calc}",
              "\\usepackage{amsmath}",
              "\\begin{document}",
              "\\begin{tikzpicture}",
              "\\end{tikzpicture}",
              "\\end{document}">>

\* The scene is empty again after its gate was deleted, with a connection
\* from a pin of that gate still in progress
C15_EmptiedScene ==
    /\ gates = <<>>
    /\ junctions = <<>>
    /\ wires = <<>>
    /\ connecting
    /\ start_connection_point # None
    /\ start_connection_point.kind = "ConnectionPoint"
    /\ Len(get_all_tikz_code) = 7

\* C16: in every reachable state the text is the preamble, then one gate
\* statement for each gate of the scene, then one junction statement for
\* each junction of the scene, then connection statements, each of a wire
\* of its own, then the epilogue; every section is headed by its comment.
C16_StatementOrder ==
    LET text == get_all_tikz_code
        statements == StatementsOf(text)
        ng == Len(gates)
        nj == Len(junctions)
        nc == Len(statements) - ng - nj
    IN  /\ Len(text) >= 7
        /\ SubSeq(text, 1, 5) = Preamble
        /\ SubSeq(text, Len(text) - 1, Len(text)) = Epilogue
        /\ nc >= 0
        /\ \A i \in 1..ng :
               statements[i] = GateTikzCode(scene_gates[i], gate_id_map[scene_gates[i].id])
        /\ \A i \in 1..nj :
               statements[ng + i] =
                   JunctionTikzCode(scene_junctions[i],
                                    junction_id_map[scene_junctions[i].id])
        /\ \E f \in [1..nc -> Range(wires)] :
               /\ \A i, j \in 1..nc : i # j => f[i] # f[j]
               /\ \A i \in 1..nc : statements[ng + nj + i] = ConnectionOf(f[i])
        /\ (ng > 0) => text[6] = "    % Gates"
        /\ (nj > 0) => "    % Junctions" \in Range(text)
        /\ (nc > 0) => "    % Connections" \in Range(text)
        /\ \A i, j \in DOMAIN text :
               (text[i] = "    % Junctions" /\ text[j] = "    % Connections") => i < j

\* Two gates, a junction and a wire are in the scene: the text has sixteen
\* lines, of which four are statements
C16_AllSections ==
    /\ Len(gates) = 2
    /\ Len(junctions) = 1
    /\ Len(wires) = 1
    /\ Len(get_all_tikz_code) = 16
    /\ Len(StatementsOf(get_all_tikz_code)) = 4

\* C17: in every reachable state the statements of the text are the gate
\* statements of all gates of the scene, the junction statements of all its
\* junctions and the connection statements of exactly those of its wires of
\* which both ends have an identifier, in the order of the wire list: a
\* wire with an end without identifier gets no statement and takes no
\* other statement away.
C17_UnidentifiedWireSkipped ==
    LET kept == SelectSeq(scene_wires, LAMBDA w : w \notin UnidentifiedWires)
    IN  StatementsOf(get_all_tikz_code) =
            [i \in DOMAIN scene_gates |->
                GateTikzCode(scene_gates[i], gate_id_map[scene_gates[i].id])]
            \o [i \in DOMAIN scene_junctions |->
                JunctionTikzCode(scene_junctions[i],
                                 junction_id_map[scene_junctions[i].id])]
            \o [i \in DOMAIN kept |-> ConnectionOf(kept[i])]

\* The scene has a gate, a junction, a wire from a junction that has been
\* deleted and a wire of which both ends have an identifier: the text has
\* three statements
C17_OneSkippedOneKept ==
    /\ Len(gates) = 1
    /\ Len(junctions) = 1
    /\ Len(wires) = 2
    /\ Cardinality(UnidentifiedWires) = 1
    /\ Len(StatementsOf(get_all_tikz_code)) = 3

\* C18: in every reachable state the commands of the document are, one for
\* one and in the same order, the statements of the text: the same nodes
\* with the same symbol names, qualifiers, identifiers and positions, and
\* the same draws with the same references.
C18_TextAndDocumentAgree ==
    StatementsOf(get_all_tikz_code) =
        [i \in DOMAIN generate_complete_document |->
            StatementOf(generate_complete_document[i])]

\* A rotated gate, a junction and a wire are in the scene: the document has
\* at least three commands, of which the first has the rotation among its
\* options
C18_RotatedGateWired ==
    /\ Len(gates) = 1
    /\ gates[1].angle = 90
    /\ Len(junctions) = 1
    /\ wires # <<>>
    /\ Len(generate_complete_document) >= 3
    /\ generate_complete_document[1].options = "and gate US, draw, rotate=90"

C20_FourTurnsRestoreGate ==
    \A i \in DOMAIN gates :
        LET g == gates[i]
            after(k) == GateOf(Turned(Heap, g.id, k).gates, g.id)
        IN  /\ g.angle \in {0, 90, 180, 270}
            /\ \A k \in 1..4 :
                   /\ after(k).angle \in {0, 90, 180, 270}
                   /\ after(k).angle = (g.angle + 90 * k) % 360
                   /\ after(k).num_inputs = g.num_inputs
                   /\ PinRoles(after(k)) = PinRoles(g)
                   /\ Len(output_points(after(k))) = 1
            /\ after(4).angle = g.angle

\* A gate with a wire on a pin it had before has been turned three times
C20_ThreeTurns ==
    /\ Len(gates) = 1
    /\ gates[1].angle = 270
    /\ wires # <<>>
    /\ \E w \in Range(wires) :
           \E e \in {wire_ends[w].start_connection, wire_ends[w].end_connection} :
               e.kind = "ConnectionPoint" /\ e \notin SceneEndpoints

\* The endpoint objects the program can still reach, in the scene or not
Endpoints == DOMAIN connected_wires

\* C21: in every reachable state, the validator returns false for the pair
\* (a, a), for every pin and every junction a the program can reach.
C21_NoSelfLoop ==
    \A a \in Endpoints : ~is_valid_connection(a, a)

\* C21 witness: a session that started at a junction of the scene, which
\* the next press can be on again, while a gate has an input pin without wire
C21_SessionAtJunction ==
    /\ connecting
    /\ start_connection_point \in JunctionsOf(junctions)
    /\ \E p \in PinsOf(gates) : p.point_type = "input" /\ connected_wires[p] = <<>>

\* C22: in every reachable state, the validator returns false for every
\* pair of pins of one and the same gate, whatever the roles of the two pins
\* and whatever wires there are.
C22_SameGateIllegal ==
    \A p, q \in {e \in Endpoints : e.kind = "ConnectionPoint"} :
        p.parent_gate = q.parent_gate => ~is_valid_connection(p, q)

\* C22 witness: a session that started at the output pin of a gate of which
\* an input pin has no wire, while the scene has a wire
C22_OutputToOwnInput ==
    /\ connecting
    /\ wires # <<>>
    /\ \E p, q \in PinsOf(gates) :
           /\ p = start_connection_point
           /\ p.point_type = "output"
           /\ q.parent_gate = p.parent_gate
           /\ q.point_type = "input"
           /\ connected_wires[q] = <<>>

\* C23: in every reachable state, for an output pin p with any number of
\* wires and an input pin q of another gate that is the end of no wire, the
\* validator returns true for the pair (p, q).
C23_OutputFanOut ==
    \A p, q \in PinsOf(gates) :
        (/\ p.point_type = "output"
         /\ q.point_type = "input"
         /\ p.parent_gate # q.parent_gate
         /\ WiresAt(q) = {})
            => is_valid_connection(p, q)

\* C23 witness: an output pin that is the end of two wires, and an input
\* pin of another gate that is the end of none
C23_TwoWiresAtOutput ==
    \E p, q \in PinsOf(gates) :
        /\ p.point_type = "output"
        /\ q.point_type = "input"
        /\ p.parent_gate # q.parent_gate
        /\ WiresAt(q) = {}
        /\ Cardinality(WiresAt(p)) = 2
        /\ Len(connected_wires[p]) = 2

\* C29: in every reachable state and for every ordered pair of endpoints of
\* the scene, the validator returns what the six rules give when they are
\* taken in this order: one and the same endpoint is illegal; else a pair with
\* a junction is legal; else two pins of one gate are illegal; else two pins
\* of one role are illegal; else a pair with an input pin that is the end of
\* a wire is illegal; else the pair is legal.
C29_RulesInOrder ==
    LET Occupied(e) == e.point_type = "input" /\ WiresAt(e) # {}
        isLegal(a, b) ==
            IF a = b THEN FALSE
            ELSE IF a.kind = "JunctionPoint" \/ b.kind = "JunctionPoint" THEN TRUE
            ELSE IF a.parent_gate = b.parent_gate THEN FALSE
            ELSE IF a.point_type = b.point_type THEN FALSE
            ELSE IF Occupied(a) \/ Occupied(b) THEN FALSE
            ELSE TRUE
    IN  \A a, b \in SceneEndpoints : is_valid_connection(a, b) = isLegal(a, b)

\* C29 witness: a scene with a junction, two gates of which one has two
\* input pins, an input pin that is the end of a wire, and a pair of pins
\* that is legal
C29_EveryRuleApplies ==
    /\ junctions # <<>>
    /\ \E p, q \in PinsOf(gates) :
           p # q /\ p.parent_gate = q.parent_gate /\ p.point_type = q.point_type
    /\ \E p, q \in PinsOf(gates) :
           /\ p.parent_gate # q.parent_gate
           /\ p.point_type = "output"
           /\ q.point_type = "input"
           /\ WiresAt(q) # {}
    /\ \E p, q \in PinsOf(gates) : is_valid_connection(p, q)

\* C30: in every reachable state the text lists the gates, the junctions and
\* the wires of the scene in the order they were created in: the i-th
\* created gate of the scene has the i-th gate statement and, when its kind
\* is not the only one of its kind, the suffix i; the k-th created junction
\* of the scene has the identifier junction{k}; the connection statements
\* are those of the wires in the order the wires were created in.
C30_CreationOrder ==
    LET written == SelectSeq(wires, LAMBDA w : w \notin UnidentifiedWires)
    IN  /\ \A i \in DOMAIN gates :
               /\ GatesSection[i + 1] = GateTikzCode(gates[i], gate_id_map[gates[i].id])
               /\ gate_id_map[gates[i].id]
                      \in {lower[gates[i].gate_type],
                           lower[gates[i].gate_type] \o ToString(i)}
        /\ \A k \in DOMAIN junctions :
               junction_id_map[junctions[k].id] = "junction" \o ToString(k)
        /\ ConnectionLines(1) = [i \in DOMAIN written |-> ConnectionOf(written[i])]

\* The gate the last press of a gate tool has put into the scene
Placed == gates[Len(gates)]

\* C24 as stated: with the grid spacing 25 and no guides, a press of a gate
\* tool at (13, 13) and one at (12, 12) both put the gate at (0, 0).
C24_BothSnapToOrigin ==
    [][\A P \in {<<13, 13>>, <<12, 12>>} :
          (/\ grid_size = 25
           /\ vertical_guides = <<>>
           /\ horizontal_guides = <<>>
           /\ PressPlace(P))
              => Placed'.pos = <<0, 0>>]_vars

\* C24 as amended: with the grid spacing 25 and no guides, a press of a gate
\* tool at (13, 13) puts the gate at (25, 25), the nearest point of the grid,
\* and one at (12, 12) puts it at (0, 0).
C24_SnapToNearest ==
    [][/\ (/\ grid_size = 25
           /\ vertical_guides = <<>>
           /\ horizontal_guides = <<>>
           /\ PressPlace(<<13, 13>>))
              => Placed'.pos = <<25, 25>>
       /\ (/\ grid_size = 25
           /\ vertical_guides = <<>>
           /\ horizontal_guides = <<>>
           /\ PressPlace(<<12, 12>>))
              => Placed'.pos = <<0, 0>>]_vars

\* C24 witness: a gate at (25, 25) while the grid spacing is 25 and there
\* are no guides
C24_PlacedOffOrigin ==
    /\ grid_size = 25
    /\ vertical_guides = <<>>
    /\ horizontal_guides = <<>>
    /\ gates # <<>>
    /\ Placed.pos = <<25, 25>>

\* C25: with no guides, a press of a gate tool at a point puts the gate, on
\* each axis, at the multiple of the grid spacing nearest to the point's
\* coordinate, and at the greater of the two multiples when the coordinate
\* is halfway between them; the grid spacing is any that set_grid_size sets.
C25_NearestHalfUp ==
    [][LET half_up(x) == ((2 * x + grid_size) \div (2 * grid_size)) * grid_size
       IN  \A P \in limits.points :
               (/\ grid_size >= 5
                /\ vertical_guides = <<>>
                /\ horizontal_guides = <<>>
                /\ PressPlace(P))
                   => Placed'.pos = <<half_up(P[1]), half_up(P[2])>>]_vars

\* C27: a press of a gate tool puts the gate, on each axis, at the position of
\* the earliest-created guide of that axis that lies within 10 units
\* (inclusive) of the grid-snapped coordinate, at the grid-snapped coordinate
\* when no guide of the axis lies that near, and at the grid-snapped point
\* when guide snapping is disabled.
C27_EarliestGuideWins ==
    [][LET Resolved(guides, g, r) ==
               IF ~snap_enabled THEN r = g
               ELSE \/ /\ \A i \in DOMAIN guides : abs(g - guides[i]) > 10
                       /\ r = g
                    \/ \E i \in DOMAIN guides :
                           /\ abs(g - guides[i]) <= 10
                           /\ \A j \in 1..(i - 1) : abs(g - guides[j]) > 10
                           /\ r = guides[i]
       IN  \A P \in limits.points :
               PressPlace(P) =>
                   /\ Resolved(vertical_guides,
                               round(P[1], grid_size) * grid_size, Placed'.pos[1])
                   /\ Resolved(horizontal_guides,
                               round(P[2], grid_size) * grid_size, Placed'.pos[2])]_vars

\* A gate stands on the first of two vertical guides and on the first of two
\* horizontal guides, each pair 10 units either side of the grid point 25
C27_PlacedOnFirstGuide ==
    /\ snap_enabled
    /\ grid_size = 25
    /\ vertical_guides = <<35, 15>>
    /\ horizontal_guides = <<15, 35>>
    /\ gates # <<>>
    /\ Placed.pos = <<35, 15>>

\* The junction a branch click has just made
Branched == junctions[Len(junctions)]

\* C26 as the specification states it: while Shift is held during a session,
\* a move of the mouse puts the preview's end, and a click on the canvas puts
\* the new junction (before the snapping that Ctrl adds), at the pointer's x
\* and the start point's y when the pointer is at least as far from the
\* start point along x as along y, and at the start point's x and the
\* pointer's y otherwise.
C26_TiesHorizontal ==
    [][LET ref == get_scene_pos(start_connection_point)
           Constrained(P) ==
               IF abs(P[1] - ref[1]) >= abs(P[2] - ref[2])
               THEN <<P[1], ref[2]>>
               ELSE <<ref[1], P[2]>>
           Final(pt) == IF shift_ctrl_pressed THEN snap_position_to_grid(pt) ELSE pt
       IN  \A P \in limits.points :
               /\ (connecting /\ shift_pressed /\ preview_wire # None
                     /\ mouseMoveEvent(P))
                       => preview_wire'.end_pos = Constrained(P)
               /\ (connecting /\ shift_pressed /\ PressCanvas(P))
                       => Branched'.pos = Final(Constrained(P))]_vars

\* C26 as the code has it: the same, but the point is at the pointer's x and
\* the start point's y only when the pointer is strictly farther from the
\* start point along x than along y; when it is as far along x as along y
\* the point is at the start point's x and the pointer's y.
C26_TiesVertical ==
    [][LET ref == get_scene_pos(start_connection_point)
           Constrained(P) ==
               IF abs(P[1] - ref[1]) > abs(P[2] - ref[2])
               THEN <<P[1], ref[2]>>
               ELSE <<ref[1], P[2]>>
           Final(pt) == IF shift_ctrl_pressed THEN snap_position_to_grid(pt) ELSE pt
       IN  \A P \in limits.points :
               /\ (connecting /\ shift_pressed /\ preview_wire # None
                     /\ mouseMoveEvent(P))
                       => preview_wire'.end_pos = Constrained(P)
               /\ (connecting /\ shift_pressed /\ PressCanvas(P))
                       => Branched'.pos = Final(Constrained(P))]_vars

\* With Shift held, a session that starts at the output pin of the gate at
\* the origin, which is at (90, 0), has its preview end at (90, 10), where
\* only a move to (100, 10) puts it, and the scene has a junction at
\* (90, 10), where only a click at (100, 10) puts one
C26_TieGoesVertical ==
    /\ connecting
    /\ shift_pressed
    /\ start_connection_point.kind = "ConnectionPoint"
    /\ start_connection_point.point_type = "output"
    /\ get_scene_pos(start_connection_point) = <<90, 0>>
    /\ preview_wire # None
    /\ preview_wire.end_pos = <<90, 10>>
    /\ junctions # <<>>
    /\ Branched.pos = <<90, 10>>

\* C28: the timer's update_code can run in every state the handlers leave,
\* a session of the wire tool included, and when it runs it changes no gate,
\* junction, wire, wire end, list of connected wires, tool, session variable
\* or selection, and gives the viewer the text of the scene as it stands.
C28_PollReadsOnly ==
    /\ [](ENABLED update_code)
    /\ [][update_code =>
             /\ UNCHANGED <<gates, junctions, wires, wire_ends, connected_wires>>
             /\ UNCHANGED <<current_tool, connecting, start_connection_point,
                            preview_wire, selected>>
             /\ UNCHANGED <<aids, keys>>
             /\ code' = get_all_tikz_code]_vars

\* The timer has just run during a session whose start point a deletion has
\* taken out of the scene, and the scene has a wire
C28_PolledWhileConnecting ==
    /\ outcome = "poll"
    /\ connecting
    /\ preview_wire # None
    /\ start_connection_point \notin SceneEndpoints
    /\ wires # <<>>
    /\ code = get_all_tikz_code

\* C31: in every reachable state in which the session is connecting, the
\* current tool is the wire tool.
C31_ConnectingOnlyUnderWire ==
    connecting => current_tool = "wire"

\* C32: a left press on the empty canvas during a session puts the new
\* junction at the press point as snap_position_to_grid resolves it, the
\* press point being first moved onto the line through the start point when
\* Shift is held.
C32_JunctionAtSnappedPoint ==
    [][\A P \in limits.points :
           (connecting /\ PressCanvas(P)) =>
               Branched'.pos =
                   snap_position_to_grid(
                       IF shift_pressed
                       THEN ortho_pos(get_scene_pos(start_connection_point), P)
                       ELSE P)]_vars

\* C33: under the wire tool while the session is not connecting, a left press
\* on a pin or junction E of the scene makes the session connecting from E
\* with a preview that starts at E, and leaves the gates, the junctions, the
\* wires, their ends, every list of connected wires and the text as they
\* were.
C33_StartKeepsGraph ==
    [][\A E \in SceneEndpoints :
           (current_tool = "wire" /\ ~connecting /\ PressEndpoint(E)) =>
               /\ connecting'
               /\ start_connection_point' = E
               /\ preview_wire' # None
               /\ preview_wire'.kind = "PreviewWire"
               /\ preview_wire'.start_point = E
               /\ UNCHANGED <<gates, junctions, wires, wire_ends, connected_wires>>
               /\ get_all_tikz_code' = get_all_tikz_code]_vars

\* A session that a press on a pin has started in a scene that has a wire
C33_StartedAtPin ==
    /\ current_tool = "wire"
    /\ connecting
    /\ start_connection_point \in SceneEndpoints
    /\ start_connection_point.kind = "ConnectionPoint"
    /\ preview_wire # None
    /\ preview_wire.start_point = start_connection_point
    /\ wires # <<>>

\* C34: a Delete with exactly the wire w selected takes w, and nothing else,
\* out of the scene: the gates and the junctions are as before, every other
\* wire is in the scene with the ends it had, and every list of connected
\* wires is the list it was without w.  (Wires are numbered by their place
\* in the scene, so a wire that came after w is numbered one less.)
C34_DeleteWireRemovesOnlyIt ==
    [][\A w \in Range(wires) :
           (selected = {WireItem(w)} /\ delete_selected) =>
               LET k == Position(wires, w)
                   now(x) == IF x = Removed THEN Removed
                             ELSE IF Position(wires, x) < k
                                  THEN wires'[Position(wires, x)]
                                  ELSE wires'[Position(wires, x) - 1]
                   without(list) == ListRemove(list, w)
               IN  /\ gates' = gates
                   /\ junctions' = junctions
                   /\ Len(wires') = Len(wires) - 1
                   /\ \A x \in Range(wires) \ {w} : wire_ends'[now(x)] = wire_ends[x]
                   /\ SceneEndpoints \subseteq DOMAIN connected_wires'
                   /\ \A e \in DOMAIN connected_wires' :
                          /\ e \in DOMAIN connected_wires
                          /\ connected_wires'[e] =
                                 [i \in DOMAIN without(connected_wires[e]) |->
                                     now(without(connected_wires[e])[i])]]_vars

\* A junction of the scene that has no wire, beside a gate that is still in
\* the scene: the wire between them has been deleted and the junction has
\* stayed
C34_JunctionLeftAlone ==
    /\ gates # <<>>
    /\ junctions # <<>>
    /\ wires = <<>>
    /\ \A e \in SceneEndpoints : connected_wires[e] = <<>>
    /\ selected = {}

\* C35: a Delete with exactly the junction J selected takes J and the wires
\* that have J as an end out of the scene and nothing else: the gates are as
\* before, the other junctions are in the scene where they were, every wire
\* that has not J as an end is in the scene with the ends it had, and the
\* list of connected wires of every other pin and junction of the scene is
\* the list it was without the wires that had J as an end.  (Junctions and
\* wires are numbered by their place in the scene, so those that came after
\* a deleted one are renumbered.)
C35_DeleteJunctionRemovesItsWires ==
    [][\A J \in JunctionsOf(junctions) :
           (selected = {J} /\ delete_selected) =>
               LET gone == WiresAt(J)
                   keptW == SelectSeq(wires, LAMBDA x : x \notin gone)
                   keptJ == SelectSeq(junctions, LAMBDA r : r.id # J.id)
                   now(x) == IF x \in Range(keptW)
                             THEN wires'[Position(keptW, x)]
                             ELSE Removed
                   nowE(e) ==
                       IF e \in JunctionsOf(keptJ)
                       THEN JunctionPoint(
                                junctions'[CHOOSE i \in DOMAIN keptJ :
                                               keptJ[i].id = e.id].id)
                       ELSE e
                   without(list) == SelectSeq(list, LAMBDA x : x \notin gone)
               IN  /\ gates' = gates
                   /\ Len(junctions') = Len(keptJ)
                   /\ \A i \in DOMAIN keptJ : junctions'[i].pos = keptJ[i].pos
                   /\ Len(wires') = Len(keptW)
                   /\ \A x \in Range(keptW) :
                          wire_ends'[now(x)] =
                              [start_connection |-> nowE(wire_ends[x].start_connection),
                               end_connection |-> nowE(wire_ends[x].end_connection)]
                   /\ \A e \in SceneEndpoints \ {J} :
                          /\ nowE(e) \in DOMAIN connected_wires'
                          /\ connected_wires'[nowE(e)] =
                                 [i \in DOMAIN without(connected_wires[e]) |->
                                     now(without(connected_wires[e])[i])]]_vars

\* A session goes on from a junction that a Delete has taken out of the
\* scene; the gate and the other junction are in the scene, and no wire is
C35_JunctionCut ==
    /\ connecting
    /\ start_connection_point.kind = "JunctionPoint"
    /\ start_connection_point \notin SceneEndpoints
    /\ gates # <<>>
    /\ junctions # <<>>
    /\ wires = <<>>
    /\ \A e \in SceneEndpoints : connected_wires[e] = <<>>

\* The pin objects that the gate g has now, among the endpoint objects the
\* program holds; the pins that a rotation took from g are not among them
OwnedPins(g) ==
    {p \in DOMAIN connected_wires :
        p.kind = "ConnectionPoint" /\ p.parent_gate = g.id /\ p.obj = g.obj}

\* C36: in every reachable state, every gate of the scene has exactly one
\* output pin, and input pins with the indices 0..n-1 and no others, one of
\* each, where n is 1 for a NOT gate and 2 for any other gate; a rotated
\* gate is a gate of the scene like any other.
C36_PinsOfEveryGate ==
    \A k \in DOMAIN gates :
        LET g == gates[k]
            n == IF g.gate_type = "NOT" THEN 1 ELSE 2
            ins == {p \in OwnedPins(g) : p.point_type = "input"}
            outs == {p \in OwnedPins(g) : p.point_type = "output"}
        IN  /\ Cardinality(outs) = 1
            /\ Cardinality(ins) = n
            /\ {p.index : p \in ins} = 0..(n - 1)
            /\ g.num_inputs = n
            /\ Range(input_points(g)) = ins
            /\ Range(output_points(g)) = outs

\* A NOT gate that has been rotated and has a wire at a pin it had before
\* the rotation
C36_RotatedNotGate ==
    /\ Len(gates) = 1
    /\ gates[1].gate_type = "NOT"
    /\ gates[1].angle = 90
    /\ \E w \in Range(wires) :
           \E e \in {wire_ends[w].start_connection, wire_ends[w].end_connection} :
               e.kind = "ConnectionPoint" /\ e \notin SceneEndpoints

\* The wires of the scene at the pin or junction e of the scene: those with
\* e as an end, and for a pin those that have as an end a pin object of the
\* same gate, role and index that a rotation has replaced by e
WiresOn(e) ==
    {w \in Range(wires) :
        \E x \in {wire_ends[w].start_connection, wire_ends[w].end_connection} :
            \/ x = e
            \/ /\ x.kind = "ConnectionPoint"
               /\ e.kind = "ConnectionPoint"
               /\ x.parent_gate = e.parent_gate
               /\ x.point_type = e.point_type
               /\ x.index = e.index}

\* C37: in every reachable state, for every pin and junction e of the scene,
\* the list of connected wires of e holds exactly the wires of the scene
\* that are at e, each once, and no wire that is not in the scene.
C37_IncidenceAgrees ==
    \A e \in SceneEndpoints :
        /\ e \in DOMAIN connected_wires
        /\ Range(connected_wires[e]) = WiresOn(e)
        /\ Len(connected_wires[e]) = Cardinality(WiresOn(e))

\* C38: in every reachable state the session is connecting if and only if it
\* has a start point, and if and only if it has a preview wire; the preview
\* wire starts at the start point.
C38_SessionVariablesAgree ==
    /\ connecting <=> start_connection_point # None
    /\ connecting <=> preview_wire # None
    /\ preview_wire # None => preview_wire.start_point = start_connection_point

\* A session at a junction of the scene that has a wire, as a press on the
\* canvas leaves it
C38_SessionMovedOn ==
    /\ connecting
    /\ start_connection_point.kind = "JunctionPoint"
    /\ start_connection_point \in SceneEndpoints
    /\ preview_wire # None
    /\ WiresAt(start_connection_point) # {}

\* C39: in every reachable state in which the session is connecting, its
\* start point is a pin of a gate of the scene or a junction of the scene.
C39_StartPointInScene ==
    connecting => start_connection_point \in SceneEndpoints

\* C40: once a right press has taken a guide out of the scene, a press of a
\* gate tool puts no gate at that guide's position: a coordinate of the
\* placed gate that is not the grid-snapped coordinate is the position of a
\* guide of that axis that is in the scene.
C40_RemovedGuideDoesNotSnap ==
    [][LET Resolved(orientation, guides, g, r) ==
               r # g => \E i \in DOMAIN guides :
                            /\ <<orientation, i>> \notin removed_guides
                            /\ guides[i] = r
       IN  \A P \in limits.points :
               PressPlace(P) =>
                   /\ Resolved("vertical", vertical_guides,
                               round(P[1], grid_size) * grid_size, Placed'.pos[1])
                   /\ Resolved("horizontal", horizontal_guides,
                               round(P[2], grid_size) * grid_size, Placed'.pos[2])]_vars

=============================================================================
